---- MODULE Spec2Model ----
(***************************************************************************)
(* IAM least-privilege policy synthesis (IAM Policy Autopilot) as it is    *)
(* used by this repository.                                                *)
(*                                                                         *)
(* The synthesizer is an out-of-process tool: its pipeline (extractor,     *)
(* mapping lookup, resolver, expander, assembler, coverage reporter) is    *)
(* modelled from the design text, while the data it works with (which      *)
(* IAM actions an SDK command maps to, which ARN patterns and which KMS    *)
(* companion statements come out) is taken from the generated policies     *)
(* recorded in reports/iam-policy-autopilot-analysis.md and from           *)
(* lib/constructs/iam-permission-construct.ts, which applies them.         *)
(***************************************************************************)
EXTENDS Integers, Sequences, FiniteSets, TLC

\* Largest number of SDK call sites in the analysed Lambda source.
MaxCallSites == 2

\* Number of messages that are ever sent to the queue.
MaxMessages == 2

\* Number of invocations of the complex-bedrock-processor function.
MaxInvocations == 2

\* Largest number of chunks the body stream of an S3 object delivers.
MaxChunks == 2

\* Longest permissions list handed to an IAMPermissionConstruct.
MaxPermissions == 2

\* Largest number of resources handed to one IAMPermissionConstruct.
MaxProvided == 2

(***************************************************************************)
(* State of one run of the tool; nothing of it outlives the run.           *)
(***************************************************************************)
VARIABLES
  stage,              \* where the invocation's pipeline stands
  request,            \* [ServiceHints, SourceFiles]
  customerManagedKey, \* are the deployed target resources encrypted with a CMK
  detectedCallSites,
  coverageGaps,       \* indexes of the call sites lookup knows nothing about
  tuples,             \* (action, resource-set, condition) tuples so far
  policy,             \* the assembled statement list
  unmatchedHints,
  error,
  pendingFiles,       \* files whose extraction is still running (parallel runs)
  \* The sqs-dynamodb-processor function, its queue and its table.
  sqsPc,              \* "idle", "mapping", "awaiting", "returned"
  queue,              \* ids of the messages on the source queue
  deadLetterQueue,
  receiveCount,       \* per message: how often it has been received
  records,            \* event.Records of the running invocation
  callbacks,          \* per record: state of its map callback
  putAttempts,        \* per record: PutCommands sent for it
  putResults,         \* per record: what its PutCommand ended with
  table,              \* items of the DynamoDB table
  batchItemFailures,
  errorLog,           \* what logError wrote in this invocation
  batchLog,           \* the counts logged when the batch is through
  response,           \* what the handler's promise settled with
  \* The complex-bedrock-processor function, its bucket and its event bus.
  bedrockPc,          \* "idle", "step1" .. "step4", "errorEvent", "returned"
  processingId,       \* randomUUID() of the running invocation, as a number
  webhookUrl,
  bedrockResult,
  s3Location,
  sdkCalls,           \* the commands sent in this invocation, in order
  failure,            \* message of the error the catch block caught
  result,             \* what the handler returned
  s3Objects,          \* processingIds with a result object in the bucket
  eventBus,           \* events the custom bus has accepted
  \* The simple-s3-reader function.
  readerPc,           \* "idle", "sending", "streaming", "returned"
  readerInput,        \* process.env: [BUCKET_NAME, FILE_NAME]
  getObjectCalls,     \* the GetObjectCommands sent in this invocation
  objectBody,         \* the chunks the object's body consists of
  streamState,        \* "none", "open", "ended", "errored"
  chunks,             \* what the 'data' listener has collected
  promise,            \* the promise streamToString returned
  timeout,            \* the 30-second timer: "none", "armed", "cleared", "fired"
  settleCalls,        \* the callbacks that called resolve or reject, in order
  caught,             \* the error the handler's catch block caught
  readerLog,          \* what console.error wrote in this invocation
  readerResponse,     \* what the handler returned
  \* The CDK constructs, instantiated in a fresh stack.
  cdkPc,              \* "idle", "constructed"
  construct,          \* name of the class that was instantiated
  props,              \* the props it was given
  thrownMessage,      \* message of the Error the constructor threw, or ""
  stackResources,     \* resources the stack's template holds
  queueConstruct,     \* fields queue and deadLetterQueue of an SQSQueueConstruct
  roleStatements      \* statements added to the Lambda role's policy, in order

(***************************************************************************)
(* Data model                                                              *)
(***************************************************************************)

\* An IAM action "<ns>:<name>", kept as its two halves.
Act(ns, name) == [ns |-> ns, name |-> name]

\* An SDK command construction `new <operation>Command(...)` on a client of
\* `namespace`.
Op(namespace, operation) == [namespace |-> namespace, operation |-> operation]

NotFound == [found |-> FALSE, primaryActions |-> {}, companionActions |-> {}]

ActionMapping(primary, companion) ==
  [found |-> TRUE, primaryActions |-> primary, companionActions |-> companion]

\* The operations a source file of the model may contain: the six commands of
\* the three Lambda handlers, the read commands the permission construct
\* provides for, and one command the mapping table does not know.
UnknownOperation == Op("s3", "UnknownOperation")

Operations ==
  { Op("s3", "GetObject"), Op("s3", "PutObject"),
    Op("dynamodb", "Put"), Op("dynamodb", "Query"),
    Op("sqs", "ReceiveMessage"),
    Op("secretsmanager", "GetSecretValue"),
    Op("bedrock", "InvokeModel"),
    Op("events", "PutEvents"),
    UnknownOperation }

\* What the source says about the resource a command works on: nothing, the
\* name of an environment variable (`Bucket: process.env.BUCKET_NAME`), or a
\* name written out in the source.
NoClue == [kind |-> "none", name |-> ""]

EnvClue(name) == [kind |-> "env", name |-> name]

LiteralClue(name) == [kind |-> "literal", name |-> name]

Call(op, clue) ==
  [namespace |-> op.namespace, operation |-> op.operation, clue |-> clue]

\* The environment variable a handler reads the resource of a command from.
EnvOf(op) ==
  CASE op.namespace = "s3" -> "BUCKET_NAME"
    [] op.namespace = "dynamodb" -> "TABLE_NAME"
    [] op.namespace = "sqs" -> "QUEUE_URL"
    [] op.namespace = "secretsmanager" -> "SECRET_ARN"
    [] op.namespace = "bedrock" -> "BEDROCK_MODEL_ID"
    [] op.namespace = "events" -> "EVENT_BUS_NAME"
    [] OTHER -> ""

\* A bucket name written out in the source.
LiteralBucket == "reports"

\* The command constructions a source file of the model may contain: every
\* known operation on a resource named by an environment variable, as the
\* handlers have them, the unknown one, and a GetObject on a literal bucket.
Calls ==
  {Call(op, EnvClue(EnvOf(op))) : op \in Operations \ {UnknownOperation}}
  \cup {Call(UnknownOperation, NoClue),
        Call(Op("s3", "GetObject"), LiteralClue(LiteralBucket))}

(***************************************************************************)
(* 4.2 Action Mapping Table                                                *)
(***************************************************************************)

\* The mappings the three generated policies show.
ReportedMapping(namespace, operation) ==
  CASE namespace = "s3" /\ operation = "GetObject" ->
         ActionMapping({Act("s3", "GetObject")},
                       {Act("s3", "GetObjectLegalHold"),
                        Act("s3", "GetObjectRetention"),
                        Act("s3", "GetObjectTagging"),
                        Act("s3", "GetObjectVersion"),
                        Act("s3-object-lambda", "GetObject")})
    [] namespace = "s3" /\ operation = "PutObject" ->
         ActionMapping({Act("s3", "PutObject")},
                       {Act("s3", "PutObjectAcl"),
                        Act("s3", "PutObjectLegalHold"),
                        Act("s3", "PutObjectRetention"),
                        Act("s3", "PutObjectTagging"),
                        Act("s3-object-lambda", "PutObject")})
    [] namespace = "dynamodb" /\ operation = "Put" ->
         ActionMapping({Act("dynamodb", "PutItem")}, {})
    [] namespace = "secretsmanager" /\ operation = "GetSecretValue" ->
         ActionMapping({Act("secretsmanager", "GetSecretValue")}, {})
    [] namespace = "bedrock" /\ operation = "InvokeModel" ->
         ActionMapping({Act("bedrock", "InvokeModel")},
                       {Act("bedrock", "CallWithBearerToken"),
                        Act("bedrock", "ApplyGuardrail")})
    [] namespace = "events" /\ operation = "PutEvents" ->
         ActionMapping({Act("events", "PutEvents")}, {})
    [] OTHER -> NotFound

\* Read commands that no analysed handler issues; the action each one needs
\* is the one the permission construct grants for it.
ConstructMapping(namespace, operation) ==
  CASE namespace = "dynamodb" /\ operation = "Query" ->
         ActionMapping({Act("dynamodb", "Query")}, {})
    [] namespace = "sqs" /\ operation = "ReceiveMessage" ->
         ActionMapping({Act("sqs", "ReceiveMessage")}, {})
    [] OTHER -> NotFound

\* A table that does not know the document client's PutCommand.
lookupWithoutDocumentClient(namespace, operation) ==
  IF namespace = "dynamodb" /\ operation = "Put" THEN NotFound
  ELSE IF ReportedMapping(namespace, operation).found
       THEN ReportedMapping(namespace, operation)
       ELSE ConstructMapping(namespace, operation)

\* A table that answers an operation it does not know with a default entry.
lookupWithDefault(namespace, operation) ==
  IF ReportedMapping(namespace, operation).found
  THEN ReportedMapping(namespace, operation)
  ELSE IF ConstructMapping(namespace, operation).found
       THEN ConstructMapping(namespace, operation)
       ELSE ActionMapping({Act("s3", "GetObject")}, {})

\* A table whose GetObject entry lacks the bundled sibling actions.
lookupWithoutBundle(namespace, operation) ==
  IF namespace = "s3" /\ operation = "GetObject"
  THEN ActionMapping(ReportedMapping(namespace, operation).primaryActions, {})
  ELSE IF ReportedMapping(namespace, operation).found
       THEN ReportedMapping(namespace, operation)
       ELSE ConstructMapping(namespace, operation)

lookup(namespace, operation) ==
  IF ReportedMapping(namespace, operation).found
  THEN ReportedMapping(namespace, operation)
  ELSE ConstructMapping(namespace, operation)

MappedActions(m) == m.primaryActions \cup m.companionActions

(***************************************************************************)
(* 4.3 Resource Pattern Resolver (no resource clue: wildcard ARNs)         *)
(***************************************************************************)

KmsKeyArn == "arn:aws:kms:*:*:key/*"

ResourcePatterns(action) ==
  CASE action.ns \in {"s3", "s3-object-lambda"} ->
         {"arn:aws:s3:*:*:accesspoint/*/object/*", "arn:aws:s3:::*/*"}
    [] action = Act("dynamodb", "PutItem") ->
         {"arn:aws:dynamodb:*:*:table/*"}
    [] action = Act("dynamodb", "Query") ->
         {"arn:aws:dynamodb:*:*:table/*", "arn:aws:dynamodb:*:*:table/*/index/*"}
    [] action.ns = "sqs" -> {"arn:aws:sqs:*:*:*"}
    [] action.ns = "secretsmanager" -> {"arn:aws:secretsmanager:*:*:secret:*"}
    [] action = Act("bedrock", "ApplyGuardrail") ->
         {"arn:aws:bedrock:*:*:guardrail-profile/*", "arn:aws:bedrock:*:*:guardrail/*"}
    [] action.ns = "bedrock" -> {"*"}
    [] action.ns = "events" -> {"arn:aws:events:*:*:event-bus/*"}
    [] action.ns = "kms" -> {KmsKeyArn}
    [] OTHER -> {"*"}

\* The patterns of an action on a resource whose name the source supplies.
NarrowedPatterns(action, name) ==
  CASE action.ns \in {"s3", "s3-object-lambda"} -> {"arn:aws:s3:::" \o name \o "/*"}
    [] action.ns = "dynamodb" -> {"arn:aws:dynamodb:*:*:table/" \o name}
    [] OTHER -> ResourcePatterns(action)

\* A resolver that takes the name of an environment variable for the name of
\* the resource.
ResolvePatternsGuessing(action, clue) ==
  IF clue.kind \in {"literal", "env"} THEN NarrowedPatterns(action, clue.name)
  ELSE ResourcePatterns(action)

\* Only a name written out in the source narrows the pattern.
ResolvePatterns(action, clue) ==
  IF clue.kind = "literal" THEN NarrowedPatterns(action, clue.name)
  ELSE ResourcePatterns(action)

(***************************************************************************)
(* 4.4 Implicit Dependency Expander                                        *)
(***************************************************************************)

NoCondition == [operator |-> "", key |-> "", value |-> ""]

ViaService(service) ==
  [operator |-> "StringLike", key |-> "kms:ViaService",
   value |-> service \o ".*.amazonaws.com"]

EncryptionCapable == {"s3", "dynamodb", "secretsmanager", "sqs"}

ReadNames ==
  {"GetObject", "GetObjectLegalHold", "GetObjectRetention", "GetObjectTagging",
   "GetObjectVersion", "Query", "Scan", "GetSecretValue", "ReceiveMessage"}

WriteNames ==
  {"PutObject", "PutObjectAcl", "PutObjectLegalHold", "PutObjectRetention",
   "PutObjectTagging", "PutItem", "PutEvents", "PutSecretValue", "UpdateSecret"}

AccessClass(action) ==
  IF action.name \in ReadNames THEN "read"
  ELSE IF action.name \in WriteNames THEN "write"
  ELSE "other"

\* One rule for every service: reads decrypt, writes generate a data key.
KmsCompanionUniform(service, class) ==
  CASE service \in {"s3", "dynamodb", "secretsmanager", "sqs"} /\ class = "read" ->
         "Decrypt"
    [] service \in {"s3", "dynamodb"} /\ class = "write" -> "GenerateDataKey"
    [] OTHER -> ""

\* Every rule grants kms:Decrypt.
KmsCompanionDecryptOnly(service, class) ==
  CASE service \in {"s3", "dynamodb", "secretsmanager", "sqs"} /\ class = "read" ->
         "Decrypt"
    [] service \in {"s3", "dynamodb"} /\ class = "write" -> "Decrypt"
    [] OTHER -> ""

\* The KMS action that accompanies an action of `class` on `service`; "" when
\* there is none.
KmsCompanion(service, class) ==
  CASE service = "s3" /\ class = "read" -> "Decrypt"
    [] service = "s3" /\ class = "write" -> "GenerateDataKey"
    [] service = "dynamodb" /\ class = "read" -> "Decrypt"
    [] service = "dynamodb" /\ class = "write" -> "Decrypt"
    [] service = "secretsmanager" /\ class = "read" -> "Decrypt"
    [] service = "sqs" /\ class = "read" -> "Decrypt"
    [] OTHER -> ""

\* The companion only for a resource that has a customer-managed key, the way
\* the permission construct decides it.
HasKmsRuleWhenEncrypted(action) ==
  /\ customerManagedKey
  /\ action.ns \in EncryptionCapable
  /\ KmsCompanion(action.ns, AccessClass(action)) # ""

HasKmsRule(action) ==
  /\ action.ns \in EncryptionCapable
  /\ KmsCompanion(action.ns, AccessClass(action)) # ""

\* Where a tuple comes from: the call site (its index in the detected
\* sequence) and, for a tuple the expander added, the action that triggered it.
NoTrigger == Act("", "")

Origin(site, trigger) == [site |-> site, trigger |-> trigger]

KmsTuple(t) ==
  [action |-> Act("kms", KmsCompanion(t.action.ns, AccessClass(t.action))),
   resources |-> {KmsKeyArn},
   condition |-> ViaService(t.action.ns),
   origin |-> Origin(t.origin.site, t.action)]

(***************************************************************************)
(* 4.5 Policy Document Assembler                                           *)
(***************************************************************************)

Range(seq) == {seq[i] : i \in DOMAIN seq}

\* Lexicographic order by namespace, then action name.
ActionOrder ==
  << Act("bedrock", "ApplyGuardrail"), Act("bedrock", "CallWithBearerToken"),
     Act("bedrock", "InvokeModel"),
     Act("dynamodb", "BatchWriteItem"), Act("dynamodb", "PutItem"),
     Act("dynamodb", "Query"), Act("dynamodb", "UpdateItem"),
     Act("events", "PutEvents"),
     Act("kms", "Decrypt"), Act("kms", "GenerateDataKey"),
     Act("s3", "GetObject"), Act("s3", "GetObjectLegalHold"),
     Act("s3", "GetObjectRetention"), Act("s3", "GetObjectTagging"),
     Act("s3", "GetObjectVersion"), Act("s3", "PutObject"),
     Act("s3", "PutObjectAcl"), Act("s3", "PutObjectLegalHold"),
     Act("s3", "PutObjectRetention"), Act("s3", "PutObjectTagging"),
     Act("s3-object-lambda", "GetObject"), Act("s3-object-lambda", "PutObject"),
     Act("secretsmanager", "GetSecretValue"),
     Act("sqs", "ReceiveMessage") >>

ConditionOrder ==
  << NoCondition, ViaService("dynamodb"), ViaService("s3"),
     ViaService("secretsmanager"), ViaService("sqs") >>

IndexOf(seq, x) == CHOOSE i \in DOMAIN seq : seq[i] = x

Rank(action) == IndexOf(ActionOrder, action)

\* The actions of a set in ActionOrder.
OrderedActions(S) == SelectSeq(ActionOrder, LAMBDA a : a \in S)

\* One statement per action: nothing is merged.
GroupKeyPerAction(t) ==
  [ns |-> t.action.ns, resources |-> t.resources, condition |-> t.condition,
   action |-> t.action]

\* The condition is not part of the key.
GroupKeyWithoutCondition(t) ==
  [ns |-> t.action.ns, resources |-> t.resources, condition |-> NoCondition]

\* One statement per origin: nothing is deduplicated.
GroupKeyPerOrigin(t) ==
  [ns |-> t.action.ns, resources |-> t.resources, condition |-> t.condition,
   origin |-> t.origin]

\* Tuples that share a group key end up in one statement.
GroupKey(t) ==
  [ns |-> t.action.ns, resources |-> t.resources, condition |-> t.condition]

Statement(k, ts) ==
  [effect |-> "Allow",
   actions |-> {t.action : t \in {u \in ts : GroupKey(u) = k}},
   resources |-> k.resources,
   condition |-> k.condition]

\* The rank of the first of a statement's actions in ActionOrder.
FirstRank(s) ==
  CHOOSE r \in DOMAIN ActionOrder :
    /\ ActionOrder[r] \in s.actions
    /\ \A q \in 1..(r - 1) : ActionOrder[q] \notin s.actions

StatementBefore(s, t) ==
  \/ FirstRank(s) < FirstRank(t)
  \/ /\ FirstRank(s) = FirstRank(t)
     /\ IndexOf(ConditionOrder, s.condition) <= IndexOf(ConditionOrder, t.condition)

\* The group keys in the order of their statements.
RECURSIVE SortKeys(_, _)
SortKeys(K, ts) ==
  IF K = {} THEN << >>
  ELSE LET first == CHOOSE k \in K :
                      \A l \in K : StatementBefore(Statement(k, ts), Statement(l, ts))
       IN  <<first>> \o SortKeys(K \ {first}, ts)

\* The group keys in the order in which their first tuple arrives.
RECURSIVE ArrivalKeys(_, _)
ArrivalKeys(ts, seen) ==
  IF ts = << >> THEN << >>
  ELSE IF GroupKey(Head(ts)) \in seen THEN ArrivalKeys(Tail(ts), seen)
       ELSE <<GroupKey(Head(ts))>>
            \o ArrivalKeys(Tail(ts), seen \cup {GroupKey(Head(ts))})

\* An assembler that keeps the statements in arrival order instead of sorting.
AssembleInArrivalOrder(ts) ==
  [i \in DOMAIN ArrivalKeys(ts, {}) |-> Statement(ArrivalKeys(ts, {})[i], Range(ts))]

Assemble(ts) ==
  LET keys == SortKeys({GroupKey(t) : t \in Range(ts)}, Range(ts))
  IN  [i \in DOMAIN keys |-> Statement(keys[i], Range(ts))]

\* An assembler that aborts the run when no call site was detected.
AssemblyResultAborting(ts, sites) ==
  IF sites = << >>
  THEN [policy |-> << >>, error |-> "EmptyInputError", stage |-> "failed"]
  ELSE [policy |-> Assemble(ts), error |-> "", stage |-> "assembled"]

\* An assembler that does not tell an empty input from any other.
AssemblyResultUnmarked(ts, sites) ==
  [policy |-> Assemble(ts), error |-> "", stage |-> "assembled"]

\* What the assembler hands on: the statement list and, when no call site
\* was detected at all, EmptyInputError as the mark of an explicit empty
\* result.
AssemblyResult(ts, sites) ==
  [policy |-> Assemble(ts),
   error |-> IF sites = << >> THEN "EmptyInputError" ELSE "",
   stage |-> "assembled"]

(***************************************************************************)
(* 4.6 Coverage Reporter                                                   *)
(***************************************************************************)

NamespacesPresent(statements) ==
  {a.ns : a \in UNION {s.actions : s \in Range(statements)}}

CoverageReport(hints, statements) == hints \ NamespacesPresent(statements)

(***************************************************************************)
(* 4.1 Call-Site Extractor                                                 *)
(***************************************************************************)

SourceFile(path, parsable, calls) ==
  [path |-> path, parsable |-> parsable, calls |-> calls]

CallSite(op, file, line) ==
  [namespace |-> op.namespace, operation |-> op.operation, clue |-> op.clue,
   file |-> file, line |-> line]

\* An extractor that passes over a file it cannot parse.
UnparsableIgnored(files) == {}

\* The files that do not parse in their declared language.
Unparsable(files) == {i \in DOMAIN files : ~files[i].parsable}

ExtractFile(f) == [i \in 1..Len(f.calls) |-> CallSite(f.calls[i], f.path, i)]

RECURSIVE ExtractAll(_)
ExtractAll(files) ==
  IF files = << >> THEN << >>
  ELSE ExtractFile(Head(files)) \o ExtractAll(Tail(files))

\* Per call site: the mapped actions, in ActionOrder; nothing when NotFound.
MapCallSite(sites, n) ==
  LET m == lookup(sites[n].namespace, sites[n].operation)
      acts == OrderedActions(MappedActions(m))
  IN  [i \in 1..Len(acts) |->
         [action |-> acts[i], resources |-> {}, condition |-> NoCondition,
          origin |-> Origin(n, NoTrigger)]]

RECURSIVE MapFrom(_, _)
MapFrom(sites, n) ==
  IF n > Len(sites) THEN << >>
  ELSE MapCallSite(sites, n) \o MapFrom(sites, n + 1)

MapCallSites(sites) == MapFrom(sites, 1)

\* A caller that logs no coverage gap.
UnmappedCallSitesNone(sites) == {}

UnmappedCallSites(sites) ==
  {i \in DOMAIN sites : ~lookup(sites[i].namespace, sites[i].operation).found}

ResolveTuples(ts, sites) ==
  [i \in DOMAIN ts |->
     [ts[i] EXCEPT !.resources =
        ResolvePatterns(ts[i].action, sites[ts[i].origin.site].clue)]]

\* Every resolved tuple stays; a tuple with a KMS rule is followed by its KMS
\* tuple.
RECURSIVE ExpandTuples(_)
ExpandTuples(ts) ==
  IF ts = << >> THEN << >>
  ELSE (IF HasKmsRule(Head(ts).action)
        THEN <<Head(ts), KmsTuple(Head(ts))>>
        ELSE <<Head(ts)>>)
       \o ExpandTuples(Tail(ts))

(***************************************************************************)
(* sqs-dynamodb-processor: the handler of the SQS event source             *)
(***************************************************************************)

Messages == 1..MaxMessages

\* EventSourceConstruct: batchSize, and SQSQueueConstruct: maxReceiveCount.
BatchSize == 10

MaxReceiveCount == 3

NoResponse == [settled |-> "none", batchItemFailures |-> << >>]

NoBatchLog == [successCount |-> 0, failureCount |-> 0]

\* What a PutCommand can end with: "ok", or the name of the exception thrown.
PutOutcomes ==
  { "ok", "ConditionalCheckFailedException",
    "ProvisionedThroughputExceededException", "ResourceNotFoundException",
    "DynamoDBServiceException", "TimeoutError" }

classifyError(thrown) ==
  CASE thrown = "ConditionalCheckFailedException" -> "DYNAMODB_CONDITIONAL_CHECK"
    [] thrown = "ProvisionedThroughputExceededException" -> "DYNAMODB_THROUGHPUT_EXCEEDED"
    [] thrown = "ResourceNotFoundException" -> "DYNAMODB_RESOURCE_NOT_FOUND"
    [] thrown = "DynamoDBServiceException" -> "DYNAMODB_UNKNOWN"
    [] OTHER -> "UNKNOWN"

\* A record as the event source mapping hands it in; its SentTimestamp
\* attribute is "epoch" (milliseconds, as SQS sets it) or "absent".
SQSRecord(messageId, sentTimestamp) ==
  [messageId |-> messageId, sentTimestamp |-> sentTimestamp]

extractMessage(record) ==
  [messageId |-> record.messageId,
   timestamp |-> IF record.sentTimestamp = "epoch" THEN "sent" ELSE "now",
   status |-> "processed"]

\* PutItem replaces the item with the same key.
PutItem(items, item) ==
  {it \in items : it.messageId # item.messageId} \cup {item}

\* A catch block that logs the error and reports nothing.
RecordFailureDropped(failures, record) == failures

\* batchItemFailures.push({itemIdentifier: record.messageId})
RecordFailure(failures, record) ==
  Append(failures, [itemIdentifier |-> record.messageId])

\* A callback without the try/catch: the error of processMessage escapes.
CallbackRethrows(outcome) == IF outcome = "ok" THEN "fulfilled" ELSE "rejected"

\* The map callback catches whatever processMessage throws: it fulfils.
CallbackSettles(outcome) == "fulfilled"

\* A mapping that does not report batch item failures: a batch whose
\* invocation did not fail is deleted whole.
RetainedIgnoringReport(batch, resp) ==
  IF resp.settled = "rejected" THEN batch ELSE {}

\* The messages of the batch that stay on the queue under
\* reportBatchItemFailures: all of them when the invocation failed, else
\* those the response names.
Retained(batch, resp) ==
  IF resp.settled = "rejected" THEN batch
  ELSE {m \in batch : \E i \in DOMAIN resp.batchItemFailures :
                         resp.batchItemFailures[i].itemIdentifier = m}

(***************************************************************************)
(* complex-bedrock-processor: the four-step handler                        *)
(***************************************************************************)

NoResult == [statusCode |-> 0, processingId |-> 0, error |-> ""]

\* What secretsClient.send and the reading of the secret can end with.
SecretOutcomes == {"ok", "NoSecretString", "NotJson", "NoWebhookUrl", "AccessDeniedException"}

\* What bedrockClient.send and the parsing of the response can end with.
BedrockOutcomes ==
  { "ok", "EmptyContent", "ThrottlingException", "ValidationException",
    "ModelNotReadyException", "AccessDeniedException", "NotJson" }

S3Outcomes == {"ok", "KMSKeyDisabledException", "AccessDenied", "SlowDown"}

\* What eventBridgeClient.send can end with; "FailedEntry" is a response
\* with FailedEntryCount > 0.
EventOutcomes == {"ok", "FailedEntry", "ResourceNotFoundException", "InternalException"}

\* The message of the Error getWebhookUrl throws.
SecretError(outcome) == "SecretFailed: " \o outcome

\* The message of the Error processWithBedrock throws.
BedrockError(outcome) ==
  CASE outcome = "ThrottlingException" -> "BedrockThrottled"
    [] outcome = "ValidationException" -> "BedrockInvalidRequest: " \o outcome
    [] outcome = "ModelNotReadyException" -> "BedrockModelNotReady"
    [] outcome = "AccessDeniedException" -> "BedrockAccessDenied"
    [] OTHER -> "BedrockFailed: " \o outcome

\* The response text: the first content block, or the placeholder.
BedrockText(outcome) == IF outcome = "EmptyContent" THEN "ResponseEmpty" ELSE "summary"

\* The message of the Error saveToS3 throws.
S3Error(outcome) ==
  CASE outcome = "KMSKeyDisabledException" -> "S3KmsKeyDisabled"
    [] outcome \in {"AccessDenied", "KMSAccessDeniedException"} -> "S3OrKmsAccessDenied"
    [] OTHER -> "S3Failed: " \o outcome

\* The message of the Error sendToEventBridge throws.
EventError(outcome) ==
  CASE outcome = "ResourceNotFoundException" -> "EventBusNotFound"
    [] OTHER -> "EventBridgeFailed: " \o outcome

\* The event PutEvents carries for the invocation.
ProcessingEvent(id, status, location, message) ==
  [processingId |-> id, status |-> status, s3Location |-> location, error |-> message]

(***************************************************************************)
(* simple-s3-reader: environment, errors and the body stream               *)
(***************************************************************************)

\* A variable of process.env: unset (undefined) or set to a string, which is
\* a sequence of characters here.
EnvUnset == [set |-> FALSE, value |-> << >>]

EnvValue(v) == [set |-> TRUE, value |-> v]

\* JavaScript truthiness of a string or undefined.
Truthy(e) == e.set /\ e.value # << >>

\* e || d
OrDefault(e, d) == IF Truthy(e) THEN e.value ELSE d

SampleJson == << "s", "a", "m", "p", "l", "e", ".", "j", "s", "o", "n" >>

\* String.prototype.trim, for the one white-space character of the model.
RECURSIVE trim(_)
trim(str) ==
  IF str = << >> THEN << >>
  ELSE IF Head(str) = " " THEN trim(Tail(str))
  ELSE IF str[Len(str)] = " " THEN trim(SubSeq(str, 1, Len(str) - 1))
  ELSE str

BucketNames == { EnvUnset, EnvValue(<< >>), EnvValue(<< "b" >>) }

FileNames ==
  { EnvUnset, EnvValue(<< >>), EnvValue(<< " " >>), EnvValue(<< " ", " " >>),
    EnvValue(<< "x" >>), EnvValue(<< " ", "x" >>), EnvValue(<< "x", " " >>) }

ErrorNames ==
  { "", "Error", "NoSuchKey", "NoSuchBucket", "AccessDenied", "InvalidBucketName",
    "NetworkingError", "TimeoutError", "ThrottlingException", "RequestLimitExceeded" }

ErrorCodes == { "", "NoSuchKey", "AccessDenied", "ThrottlingException", "ECONNRESET" }

\* What s3Client.send can throw.
S3Errors == [name : ErrorNames, code : ErrorCodes]

NoError == [name |-> "", code |-> ""]

EmptyStreamError == [name |-> "Error", code |-> ""]

StreamTimeoutError == [name |-> "Error", code |-> ""]

\* What the body stream can emit with 'error'.
StreamErrors == { [name |-> "Error", code |-> "ECONNRESET"],
                  [name |-> "TimeoutError", code |-> ""] }

NoReaderResponse == [statusCode |-> 0, error |-> ""]

NoReaderInput == [BUCKET_NAME |-> EnvUnset, FILE_NAME |-> EnvUnset]

ReaderResponse(statusCode, label) == [statusCode |-> statusCode, error |-> label]

\* A selection in which the code decides although the error has a name.
errorNameByCode(thrown) ==
  IF thrown.code # "" THEN thrown.code
  ELSE IF thrown.name # "" THEN thrown.name
  ELSE "UnknownError"

\* error.name || error.code || "UnknownError"
errorName(thrown) ==
  IF thrown.name # "" THEN thrown.name
  ELSE IF thrown.code # "" THEN thrown.code
  ELSE "UnknownError"

handleS3Error(thrown) ==
  LET name == errorName(thrown)
  IN  CASE name = "NoSuchKey" -> ReaderResponse(404, "FileNotFound")
        [] name = "AccessDenied" -> ReaderResponse(403, "AccessDenied")
        [] name = "NoSuchBucket" -> ReaderResponse(404, "BucketNotFound")
        [] name = "InvalidBucketName" -> ReaderResponse(400, "InvalidBucketName")
        [] name \in {"NetworkingError", "TimeoutError"} ->
             ReaderResponse(503, "NetworkError")
        [] name \in {"ThrottlingException", "RequestLimitExceeded"} ->
             ReaderResponse(429, "ThrottlingError")
        [] OTHER -> ReaderResponse(500, "InternalError")

\* The chunks of a body; "{" followed by "}" is the one JSON text among
\* their concatenations.
ChunkValues == { "{", "}", "x" }

Bodies == UNION {[1..k -> ChunkValues] : k \in 0..MaxChunks}

\* Buffer.concat(chunks).toString("utf-8")
RECURSIVE concat(_)
concat(cs) == IF cs = << >> THEN "" ELSE Head(cs) \o concat(Tail(cs))

\* Does JSON.parse accept the text.
ParsesAsJson(text) == text = "{}"

Pending == [state |-> "pending", text |-> "", reason |-> NoError]

\* A promise that could be settled again.
SettleAgain(p, state, text, reason) ==
  [state |-> state, text |-> text, reason |-> reason]

\* resolve and reject of a promise: only the first call settles it.
Settle(p, state, text, reason) ==
  IF p.state = "pending"
  THEN [state |-> state, text |-> text, reason |-> reason]
  ELSE p

\* A handler that answers 200 although the promise was rejected.
AfterStreamIgnoringRejection(p) == ReaderResponse(200, "")

\* The handler after await streamToString: 200 whether or not the text is
\* JSON, or the catch block's response.
AfterStream(p) ==
  IF p.state = "resolved"
  THEN ReaderResponse(200, "")
  ELSE handleS3Error(p.reason)

\* The two checks before the try block: the response they return, or
\* statusCode 0 when the handler goes on.
ValidateInput(bucket, file) ==
  LET fileName == OrDefault(file, SampleJson)
  IN  IF ~Truthy(bucket) THEN ReaderResponse(500, "ConfigurationError")
      ELSE IF fileName = << >> \/ trim(fileName) = << >>
           THEN ReaderResponse(400, "InvalidInput")
      ELSE ReaderResponse(0, "")

(***************************************************************************)
(* The CDK constructs                                                      *)
(***************************************************************************)

\* An optional property: undefined, or a value.
Undefined == << >>

Defined(v) == << v >>

IsDefined(o) == o # << >>

ValueOf(o) == o[1]

\* Destructuring with a default: the default is taken for undefined only.
WithDefault(o, d) == IF IsDefined(o) THEN ValueOf(o) ELSE d

NoProps == [none |-> TRUE]

NoQueueConstruct == [queue |-> Undefined, deadLetterQueue |-> Undefined]

Optional(S) == {Undefined} \cup {Defined(v) : v \in S}

\* ---- SQSQueueConstruct ----

SQSQueueConstructProps ==
  [queueName : Optional({"CustomQueueName"}),
   maxReceiveCount : Optional({1, 5}),
   enableDeadLetterQueue : Optional(BOOLEAN)]

Queue(id, queueName, redrivePolicy) ==
  [type |-> "AWS::SQS::Queue", id |-> id, queueName |-> queueName,
   redrivePolicy |-> redrivePolicy]

\* A construct whose dead-letter queue has to be asked for.
enableDeadLetterQueueOptIn(p) == p.enableDeadLetterQueue = Defined(TRUE)

\* enableDeadLetterQueue = true
enableDeadLetterQueue(p) == WithDefault(p.enableDeadLetterQueue, TRUE)

\* The two queues, or the one queue, the constructor creates.
SQSQueueConstruct(p) ==
  LET dlq == IF enableDeadLetterQueue(p)
             THEN Defined(Queue("DeadLetterQueue",
                                IF IsDefined(p.queueName)
                                THEN Defined(ValueOf(p.queueName) \o "-dlq")
                                ELSE Undefined,
                                Undefined))
             ELSE Undefined
      main == Queue("Queue", p.queueName,
                    IF IsDefined(dlq)
                    THEN Defined([queue |-> "DeadLetterQueue",
                                  maxReceiveCount |->
                                    WithDefault(p.maxReceiveCount, MaxReceiveCount)])
                    ELSE Undefined)
  IN  [resources |-> {main} \cup (IF IsDefined(dlq) THEN {ValueOf(dlq)} ELSE {}),
       fields |-> [queue |-> Defined("Queue"),
                   deadLetterQueue |-> IF IsDefined(dlq)
                                       THEN Defined("DeadLetterQueue")
                                       ELSE Undefined]]

\* ---- DataDeploymentConstruct ----

\* sourcePath may be the empty string, which is as good as none.
DataDeploymentConstructProps ==
  [targetBucket : Optional({"TestBucket"}),
   sourcePath : Optional({"", "data"}),
   destinationKeyPrefix : Optional({"prefix/"}),
   prune : Optional(BOOLEAN)]

TargetBucketRequired == "targetBucket is a required property"

SourcePathRequired == "sourcePath is a required property"

\* A validation that looks at sourcePath first.
ValidateDeploymentSourceFirst(p) ==
  IF ~IsDefined(p.sourcePath) \/ p.sourcePath = Defined("") THEN SourcePathRequired
  ELSE IF ~IsDefined(p.targetBucket) THEN TargetBucketRequired
  ELSE ""

\* The message of the Error the validation throws, or "".
ValidateDeployment(p) ==
  IF ~IsDefined(p.targetBucket) THEN TargetBucketRequired
  ELSE IF ~IsDefined(p.sourcePath) \/ p.sourcePath = Defined("") THEN SourcePathRequired
  ELSE ""

BucketDeployment(p) ==
  [type |-> "Custom::CDKBucketDeployment", id |-> "Deployment",
   destinationBucket |-> ValueOf(p.targetBucket),
   source |-> ValueOf(p.sourcePath),
   destinationKeyPrefix |-> p.destinationKeyPrefix,
   prune |-> WithDefault(p.prune, FALSE)]

DataDeploymentConstruct(p) ==
  IF ValidateDeployment(p) # ""
  THEN [thrown |-> ValidateDeployment(p), resources |-> {}]
  ELSE [thrown |-> "", resources |-> {BucketDeployment(p)}]

\* ---- IAMPermissionConstruct ----

PermissionKinds == {"read", "write", "delete", "consume", "send", "invoke"}

ResourceKinds ==
  << "s3Bucket", "sqsQueue", "dynamoDBTable", "secret", "eventBus", "kmsKey",
     "bedrockModelId" >>

\* A resource handed to the construct: its ARN and the key it is encrypted
\* with, if it exposes one.
Target(arn, encryptionKey) == [arn |-> arn, encryptionKey |-> encryptionKey]

Targets(arn) == Optional({Target(arn, Undefined), Target(arn, Defined("arn:key"))})

AllIAMPermissionConstructProps ==
  [lambdaFunction : Optional({"Function"}),
   s3Bucket : Targets("arn:bucket"),
   sqsQueue : Targets("arn:queue"),
   dynamoDBTable : Targets("arn:table"),
   secret : Targets("arn:secret"),
   eventBus : Optional({Target("arn:bus", Undefined)}),
   kmsKey : Optional({Target("arn:cmk", Undefined)}),
   bedrockModelId : Optional({Target("anthropic.claude-3-sonnet", Undefined)}),
   permissions : Optional(UNION {[1..k -> PermissionKinds] : k \in 0..MaxPermissions})]

\* The resources the props provide, as indexes of ResourceKinds.
Provided(p) == {n \in DOMAIN ResourceKinds : IsDefined(p[ResourceKinds[n]])}

IAMPermissionConstructProps ==
  {p \in AllIAMPermissionConstructProps : Cardinality(Provided(p)) <= MaxProvided}

PolicyStatement(actions, resources, condition) ==
  [effect |-> "Allow", actions |-> actions, resources |-> resources,
   condition |-> condition]

\* The statement for the resource's key, when the resource exposes one.
ViaServiceStatement(service, name, target) ==
  IF IsDefined(target.encryptionKey)
  THEN << PolicyStatement({Act("kms", name)}, {ValueOf(target.encryptionKey)},
                          ViaService(service)) >>
  ELSE << >>

Acts(ns, names) == {Act(ns, n) : n \in names}

\* The switch statements of the constructor: what one permission kind adds
\* for one provided resource.
StatementsOf(kind, target, permission) ==
  CASE kind = "s3Bucket" /\ permission = "read" ->
         << PolicyStatement(Acts("s3", {"GetObject", "GetObjectLegalHold",
                                        "GetObjectRetention", "GetObjectTagging",
                                        "GetObjectVersion"}),
                            {target.arn \o "/*"}, NoCondition),
            PolicyStatement({Act("s3-object-lambda", "GetObject")},
                            {target.arn \o "/*"}, NoCondition) >>
         \o ViaServiceStatement("s3", "Decrypt", target)
    [] kind = "s3Bucket" /\ permission = "write" ->
         << PolicyStatement(Acts("s3", {"PutObject", "PutObjectAcl",
                                        "PutObjectLegalHold", "PutObjectRetention",
                                        "PutObjectTagging"}),
                            {target.arn \o "/*"}, NoCondition),
            PolicyStatement({Act("s3-object-lambda", "PutObject")},
                            {target.arn \o "/*"}, NoCondition) >>
         \o ViaServiceStatement("s3", "GenerateDataKey", target)
    [] kind = "s3Bucket" /\ permission = "delete" ->
         << PolicyStatement(Acts("s3", {"DeleteObject", "DeleteObjectVersion"}),
                            {target.arn \o "/*"}, NoCondition) >>
    [] kind = "sqsQueue" /\ permission = "consume" ->
         << PolicyStatement(Acts("sqs", {"ReceiveMessage", "DeleteMessage",
                                         "GetQueueAttributes",
                                         "ChangeMessageVisibility"}),
                            {target.arn}, NoCondition) >>
         \o ViaServiceStatement("sqs", "Decrypt", target)
    [] kind = "sqsQueue" /\ permission = "send" ->
         << PolicyStatement(Acts("sqs", {"SendMessage", "GetQueueUrl"}),
                            {target.arn}, NoCondition) >>
    [] kind = "dynamoDBTable" /\ permission = "read" ->
         << PolicyStatement(Acts("dynamodb", {"GetItem", "Query", "Scan",
                                              "BatchGetItem"}),
                            {target.arn, target.arn \o "/index/*"}, NoCondition) >>
         \o ViaServiceStatement("dynamodb", "Decrypt", target)
    [] kind = "dynamoDBTable" /\ permission = "write" ->
         << PolicyStatement({Act("dynamodb", "PutItem")}, {target.arn}, NoCondition) >>
         \o ViaServiceStatement("dynamodb", "Decrypt", target)
    [] kind = "secret" /\ permission = "read" ->
         << PolicyStatement({Act("secretsmanager", "GetSecretValue")},
                            {target.arn}, NoCondition) >>
         \o ViaServiceStatement("secretsmanager", "Decrypt", target)
    [] kind = "secret" /\ permission = "write" ->
         << PolicyStatement(Acts("secretsmanager", {"PutSecretValue", "UpdateSecret"}),
                            {target.arn}, NoCondition) >>
    [] kind = "eventBus" /\ permission = "send" ->
         << PolicyStatement({Act("events", "PutEvents")}, {target.arn}, NoCondition) >>
    [] kind = "kmsKey" /\ permission = "read" ->
         << PolicyStatement({Act("kms", "Decrypt")}, {target.arn}, NoCondition) >>
    [] kind = "kmsKey" /\ permission = "write" ->
         << PolicyStatement(Acts("kms", {"Encrypt", "GenerateDataKey"}),
                            {target.arn}, NoCondition) >>
    [] kind = "bedrockModelId" /\ permission = "invoke" ->
         << PolicyStatement({Act("bedrock", "ApplyGuardrail")},
                            {"arn:aws:bedrock:*:*:guardrail-profile/*",
                             "arn:aws:bedrock:*:*:guardrail/*"}, NoCondition),
            PolicyStatement(Acts("bedrock", {"CallWithBearerToken", "InvokeModel"}),
                            {"*"}, NoCondition) >>
    [] OTHER -> << >>

\* permissions.forEach over the switch of one resource.
RECURSIVE forEach(_, _, _)
forEach(permissions, kind, target) ==
  IF permissions = << >> THEN << >>
  ELSE StatementsOf(kind, target, Head(permissions))
       \o forEach(Tail(permissions), kind, target)

\* A default that grants more than reading.
permissionsDefaultReadWrite(p) == WithDefault(p.permissions, << "read", "write" >>)

\* permissions = ["read"]
permissionsOf(p) == WithDefault(p.permissions, << "read" >>)

\* The if blocks of the constructor, from block n on.
RECURSIVE Blocks(_, _)
Blocks(p, n) ==
  IF n > Len(ResourceKinds) THEN << >>
  ELSE (IF IsDefined(p[ResourceKinds[n]])
        THEN forEach(permissionsOf(p), ResourceKinds[n], ValueOf(p[ResourceKinds[n]]))
        ELSE << >>)
       \o Blocks(p, n + 1)

LambdaFunctionRequired == "lambdaFunction is a required property"

IAMPermissionConstruct(p) ==
  IF ~IsDefined(p.lambdaFunction)
  THEN [thrown |-> LambdaFunctionRequired, statements |-> << >>]
  ELSE [thrown |-> "", statements |-> Blocks(p, 1)]

\* The earlier version of the construct, which calls the grant methods of
\* the CDK: what grantConsumeMessages and grantWriteData add.
grantConsumeMessages(target) ==
  << PolicyStatement(Acts("sqs", {"ReceiveMessage", "ChangeMessageVisibility",
                                  "GetQueueUrl", "DeleteMessage",
                                  "GetQueueAttributes"}),
                     {target.arn}, NoCondition) >>

grantWriteData(target) ==
  << PolicyStatement(Acts("dynamodb", {"BatchWriteItem", "PutItem", "UpdateItem",
                                       "DeleteItem", "DescribeTable"}),
                     {target.arn}, NoCondition) >>

\* The two versions of iam-permission-construct the repository holds.
ConstructVersions == {"explicit", "grant"}

\* ---- StandardIamTestStack ----

StandardQueueProps ==
  [queueName |-> Undefined, maxReceiveCount |-> Defined(3),
   enableDeadLetterQueue |-> Defined(TRUE)]

NoTargets ==
  [lambdaFunction |-> Defined("Function"), s3Bucket |-> Undefined,
   sqsQueue |-> Undefined, dynamoDBTable |-> Undefined, secret |-> Undefined,
   eventBus |-> Undefined, kmsKey |-> Undefined, bedrockModelId |-> Undefined,
   permissions |-> Undefined]

SQSPermissionProps ==
  [NoTargets EXCEPT !.sqsQueue = Defined(Target("arn:queue", Undefined)),
                    !.permissions = Defined(<< "consume" >>)]

DynamoDBPermissionProps(tbl) ==
  [NoTargets EXCEPT !.dynamoDBTable = Defined(tbl),
                    !.permissions = Defined(<< "write" >>)]

\* The statements the two IAMPermissionConstructs of the stack add.
StandardIamTestStack(version, tbl) ==
  IF version = "explicit"
  THEN IAMPermissionConstruct(SQSPermissionProps).statements
       \o IAMPermissionConstruct(DynamoDBPermissionProps(tbl)).statements
  ELSE grantConsumeMessages(Target("arn:queue", Undefined)) \o grantWriteData(tbl)

(***************************************************************************)
(* One synthesis invocation after the other                                *)
(***************************************************************************)

synthVars == << stage, request, customerManagedKey, detectedCallSites,
               coverageGaps, tuples, policy, unmatchedHints, error >>

sqsVars == << sqsPc, queue, deadLetterQueue, receiveCount, records, callbacks,
             putAttempts, putResults, table, batchItemFailures, errorLog,
             batchLog, response >>

bedrockVars == << bedrockPc, processingId, webhookUrl, bedrockResult, s3Location,
                 sdkCalls, failure, result, s3Objects, eventBus >>

readerVars == << readerPc, readerInput, getObjectCalls, objectBody, streamState,
                chunks, promise, timeout, settleCalls, caught, readerLog,
                readerResponse >>

cdkVars == << cdkPc, construct, props, thrownMessage, stackResources,
             queueConstruct, roleStatements >>

\* What a sequential run of the synthesizer never touches.
otherVars == << pendingFiles, sqsVars, bedrockVars, readerVars, cdkVars >>

vars == << synthVars, otherVars >>

NoRequest == [ServiceHints |-> {}, SourceFiles |-> << >>]

\* The service hint lists of the three recorded queries, and one that names
\* the namespaces only companion actions have.
HintSets ==
  { {"s3"}, {"sqs", "dynamodb"},
    {"bedrock", "s3", "secretsmanager", "events"}, {"kms", "s3-object-lambda"} }

BoundedSeq(S, n) == UNION {[1..k -> S] : k \in 0..n}

\* The handler's file alone, as in the recorded queries, or with a second
\* source file that does not parse.
HelperFiles ==
  { << >>,
    << SourceFile("helper.ts", FALSE, << >>) >> }

Init ==
  /\ stage = "idle"
  /\ request = NoRequest
  /\ customerManagedKey = FALSE
  /\ detectedCallSites = << >>
  /\ coverageGaps = {}
  /\ tuples = << >>
  /\ policy = << >>
  /\ unmatchedHints = {}
  /\ error = ""
  /\ pendingFiles = {}
  /\ sqsPc = "idle"
  /\ queue = Messages
  /\ deadLetterQueue = {}
  /\ receiveCount = [m \in Messages |-> 0]
  /\ records = << >>
  /\ callbacks = << >>
  /\ putAttempts = << >>
  /\ putResults = << >>
  /\ table = {}
  /\ batchItemFailures = << >>
  /\ errorLog = << >>
  /\ batchLog = NoBatchLog
  /\ response = NoResponse
  /\ bedrockPc = "idle"
  /\ processingId = 0
  /\ webhookUrl = ""
  /\ bedrockResult = ""
  /\ s3Location = ""
  /\ sdkCalls = << >>
  /\ failure = ""
  /\ result = NoResult
  /\ s3Objects = {}
  /\ eventBus = {}
  /\ readerPc = "idle"
  /\ readerInput = NoReaderInput
  /\ getObjectCalls = << >>
  /\ objectBody = << >>
  /\ streamState = "none"
  /\ chunks = << >>
  /\ promise = Pending
  /\ timeout = "none"
  /\ settleCalls = << >>
  /\ caught = NoError
  /\ readerLog = << >>
  /\ readerResponse = NoReaderResponse
  /\ cdkPc = "idle"
  /\ construct = ""
  /\ props = NoProps
  /\ thrownMessage = ""
  /\ stackResources = {}
  /\ queueConstruct = NoQueueConstruct
  /\ roleStatements = << >>

Invoke ==
  /\ stage = "idle"
  /\ \E calls \in BoundedSeq(Calls, MaxCallSites), helper \in HelperFiles,
        hints \in HintSets, cmk \in BOOLEAN :
       /\ request' = [ServiceHints |-> hints,
                      SourceFiles |-> <<SourceFile("index.ts", TRUE, calls)>> \o helper]
       /\ customerManagedKey' = cmk
  /\ stage' = "invoked"
  /\ UNCHANGED << detectedCallSites, coverageGaps, tuples, policy,
                  unmatchedHints, error >>
  /\ UNCHANGED otherVars

ExtractOk ==
  /\ stage = "invoked"
  /\ Unparsable(request.SourceFiles) = {}
  /\ detectedCallSites' = ExtractAll(request.SourceFiles)
  /\ stage' = "extracted"
  /\ UNCHANGED << request, customerManagedKey, coverageGaps, tuples, policy,
                  unmatchedHints, error >>
  /\ UNCHANGED otherVars

ExtractParseError ==
  /\ stage = "invoked"
  /\ Unparsable(request.SourceFiles) # {}
  /\ error' = "ParseError"
  /\ stage' = "failed"
  /\ UNCHANGED << request, customerManagedKey, detectedCallSites, coverageGaps,
                  tuples, policy, unmatchedHints >>
  /\ UNCHANGED otherVars

MapActions ==
  /\ stage = "extracted"
  /\ tuples' = MapCallSites(detectedCallSites)
  /\ coverageGaps' = UnmappedCallSites(detectedCallSites)
  /\ stage' = "mapped"
  /\ UNCHANGED << request, customerManagedKey, detectedCallSites, policy,
                  unmatchedHints, error >>
  /\ UNCHANGED otherVars

Resolve ==
  /\ stage = "mapped"
  /\ tuples' = ResolveTuples(tuples, detectedCallSites)
  /\ stage' = "resolved"
  /\ UNCHANGED << request, customerManagedKey, detectedCallSites, coverageGaps,
                  policy, unmatchedHints, error >>
  /\ UNCHANGED otherVars

Expand ==
  /\ stage = "resolved"
  /\ tuples' = ExpandTuples(tuples)
  /\ stage' = "expanded"
  /\ UNCHANGED << request, customerManagedKey, detectedCallSites, coverageGaps,
                  policy, unmatchedHints, error >>
  /\ UNCHANGED otherVars

\* Zero call sites: the result is the empty statement list, marked
\* EmptyInputError.
AssemblePolicy ==
  /\ stage = "expanded"
  /\ LET assembled == AssemblyResult(tuples, detectedCallSites)
     IN  /\ policy' = assembled.policy
         /\ error' = assembled.error
         /\ stage' = assembled.stage
  /\ UNCHANGED << request, customerManagedKey, detectedCallSites, coverageGaps,
                  tuples, unmatchedHints >>
  /\ UNCHANGED otherVars

Report ==
  /\ stage = "assembled"
  /\ unmatchedHints' = CoverageReport(request.ServiceHints, policy)
  /\ stage' = "done"
  /\ UNCHANGED << request, customerManagedKey, detectedCallSites, coverageGaps,
                  tuples, policy, error >>
  /\ UNCHANGED otherVars

\* The SynthesisResult (or the failure) has been handed out; nothing is kept.
Discard ==
  /\ stage \in {"done", "failed"}
  /\ stage' = "idle"
  /\ request' = NoRequest
  /\ customerManagedKey' = FALSE
  /\ detectedCallSites' = << >>
  /\ coverageGaps' = {}
  /\ tuples' = << >>
  /\ policy' = << >>
  /\ unmatchedHints' = {}
  /\ error' = ""
  /\ UNCHANGED otherVars

Next ==
  \/ Invoke
  \/ ExtractOk
  \/ ExtractParseError
  \/ MapActions
  \/ Resolve
  \/ Expand
  \/ AssemblePolicy
  \/ Report
  \/ Discard

Spec == Init /\ [][Next]_vars

(***************************************************************************)
(* 5. The extractor fanned out per file                                    *)
(***************************************************************************)

\* The commands of the files of a parallel run: two whose KMS companions
\* are the same action under different conditions, and a third.
ParallelCalls ==
  { Call(Op("s3", "GetObject"), EnvClue("BUCKET_NAME")),
    Call(Op("secretsmanager", "GetSecretValue"), EnvClue("SECRET_ARN")),
    Call(Op("dynamodb", "Put"), EnvClue("TABLE_NAME")) }

\* Two source files are handed in and the extraction of each is started.
InvokeParallel ==
  /\ stage = "idle"
  /\ \E first \in BoundedSeq(ParallelCalls, MaxCallSites),
        second \in BoundedSeq(ParallelCalls, MaxCallSites) :
       request' = [ServiceHints |-> {"s3", "secretsmanager", "dynamodb"},
                   SourceFiles |-> << SourceFile("index.ts", TRUE, first),
                                      SourceFile("helper.ts", TRUE, second) >>]
  /\ pendingFiles' = {1, 2}
  /\ stage' = "invoked"
  /\ UNCHANGED << customerManagedKey, detectedCallSites, coverageGaps, tuples,
                  policy, unmatchedHints, error, sqsVars, bedrockVars, readerVars,
                  cdkVars >>

\* The extraction of file f finishes, in whatever order, and its CallSite
\* sequence is merged behind those that finished before.
FinishFile(f) ==
  /\ stage = "invoked"
  /\ f \in pendingFiles
  /\ detectedCallSites' = detectedCallSites \o ExtractFile(request.SourceFiles[f])
  /\ pendingFiles' = pendingFiles \ {f}
  /\ stage' = IF pendingFiles = {f} THEN "extracted" ELSE "invoked"
  /\ UNCHANGED << request, customerManagedKey, coverageGaps, tuples, policy,
                  unmatchedHints, error, sqsVars, bedrockVars, readerVars,
                  cdkVars >>

NextParallel ==
  \/ InvokeParallel
  \/ \E f \in {1, 2} : FinishFile(f)
  \/ MapActions
  \/ Resolve
  \/ Expand
  \/ AssemblePolicy
  \/ Report
  \/ Discard

SpecParallel == Init /\ [][NextParallel]_vars

(***************************************************************************)
(* sqs-dynamodb-processor: invocations by the event source mapping         *)
(***************************************************************************)

notSqsVars == << synthVars, pendingFiles, bedrockVars, readerVars, cdkVars >>

Distinct(seq) == \A i, j \in DOMAIN seq : (i # j) => (seq[i] # seq[j])

\* The event source mapping receives a batch of messages and invokes the
\* handler with it.
ReceiveBatch ==
  /\ sqsPc = "idle"
  /\ \E batch \in BoundedSeq(queue, MaxMessages) :
       /\ batch # << >>
       /\ Len(batch) <= BatchSize
       /\ Distinct(batch)
       /\ \A i \in DOMAIN batch : receiveCount[batch[i]] < MaxReceiveCount
       /\ records' = [i \in DOMAIN batch |-> SQSRecord(batch[i], "epoch")]
       /\ receiveCount' = [m \in Messages |->
                             IF m \in Range(batch) THEN receiveCount[m] + 1
                             ELSE receiveCount[m]]
       /\ callbacks' = [i \in DOMAIN batch |-> "new"]
       /\ putAttempts' = [i \in DOMAIN batch |-> 0]
       /\ putResults' = [i \in DOMAIN batch |-> "none"]
  /\ sqsPc' = "mapping"
  /\ UNCHANGED << queue, deadLetterQueue, table, batchItemFailures, errorLog,
                  batchLog, response, notSqsVars >>

\* event.Records.map: the callback of the next record runs up to the await
\* of docClient.send, which sends the record's PutCommand.
StartCallback ==
  /\ sqsPc = "mapping"
  /\ \E i \in DOMAIN records :
       /\ callbacks[i] = "new"
       /\ \A j \in 1..(i - 1) : callbacks[j] # "new"
       /\ callbacks' = [callbacks EXCEPT ![i] = "sending"]
       /\ putAttempts' = [putAttempts EXCEPT ![i] = @ + 1]
       /\ sqsPc' = IF i = Len(records) THEN "awaiting" ELSE "mapping"
  /\ UNCHANGED << queue, deadLetterQueue, receiveCount, records, putResults,
                  table, batchItemFailures, errorLog, batchLog, response,
                  notSqsVars >>

\* The PutCommand of record i ends, in whatever order; on an exception the
\* catch block classifies and logs it and pushes the record's messageId.
SettlePut(i, outcome) ==
  /\ sqsPc = "awaiting"
  /\ response = NoResponse
  /\ callbacks[i] = "sending"
  /\ putResults' = [putResults EXCEPT ![i] = outcome]
  /\ IF outcome = "ok"
     THEN /\ table' = PutItem(table, extractMessage(records[i]))
          /\ callbacks' = [callbacks EXCEPT ![i] = "fulfilled"]
          /\ UNCHANGED << batchItemFailures, errorLog >>
     ELSE /\ errorLog' = Append(errorLog,
                                 [messageId |-> records[i].messageId,
                                  errorType |-> classifyError(outcome)])
          /\ batchItemFailures' = RecordFailure(batchItemFailures, records[i])
          /\ callbacks' = [callbacks EXCEPT ![i] = CallbackSettles(outcome)]
          /\ UNCHANGED table
  /\ UNCHANGED << sqsPc, queue, deadLetterQueue, receiveCount, records,
                  putAttempts, batchLog, response, notSqsVars >>

\* await Promise.all: it rejects with the first callback that rejects and
\* resolves when all have fulfilled; then the counts are logged and the
\* response is returned.
HandlerSettle ==
  /\ sqsPc = "awaiting"
  /\ response = NoResponse
  /\ \/ \E i \in DOMAIN records : callbacks[i] = "rejected"
     \/ \A i \in DOMAIN records : callbacks[i] = "fulfilled"
  /\ IF \E i \in DOMAIN records : callbacks[i] = "rejected"
     THEN /\ response' = [settled |-> "rejected", batchItemFailures |-> << >>]
          /\ UNCHANGED batchLog
     ELSE /\ response' = [settled |-> "resolved",
                          batchItemFailures |-> batchItemFailures]
          /\ batchLog' = [successCount |-> Len(records) - Len(batchItemFailures),
                          failureCount |-> Len(batchItemFailures)]
  /\ sqsPc' = "returned"
  /\ UNCHANGED << queue, deadLetterQueue, receiveCount, records, callbacks,
                  putAttempts, putResults, table, batchItemFailures, errorLog,
                  notSqsVars >>

\* The event source mapping deletes from the queue the messages of the
\* batch that the response does not keep there.
CompleteBatch ==
  /\ sqsPc = "returned"
  /\ queue' = (queue \ {records[i].messageId : i \in DOMAIN records})
                 \cup Retained({records[i].messageId : i \in DOMAIN records}, response)
  /\ records' = << >>
  /\ callbacks' = << >>
  /\ putAttempts' = << >>
  /\ putResults' = << >>
  /\ batchItemFailures' = << >>
  /\ errorLog' = << >>
  /\ batchLog' = NoBatchLog
  /\ response' = NoResponse
  /\ sqsPc' = "idle"
  /\ UNCHANGED << deadLetterQueue, receiveCount, table, notSqsVars >>

\* The redrive policy: a message received maxReceiveCount times and still
\* on the queue goes to the dead-letter queue.
MoveToDeadLetterQueue(m) ==
  /\ sqsPc = "idle"
  /\ m \in queue
  /\ receiveCount[m] >= MaxReceiveCount
  /\ queue' = queue \ {m}
  /\ deadLetterQueue' = deadLetterQueue \cup {m}
  /\ UNCHANGED << sqsPc, receiveCount, records, callbacks, putAttempts,
                  putResults, table, batchItemFailures, errorLog, batchLog,
                  response, notSqsVars >>

NextSqs ==
  \/ ReceiveBatch
  \/ StartCallback
  \/ \E i \in 1..MaxMessages, outcome \in PutOutcomes :
       i \in DOMAIN records /\ SettlePut(i, outcome)
  \/ HandlerSettle
  \/ CompleteBatch
  \/ \E m \in Messages : MoveToDeadLetterQueue(m)

SpecSqs == Init /\ [][NextSqs]_vars

(***************************************************************************)
(* complex-bedrock-processor: one invocation after the other               *)
(***************************************************************************)

notBedrockVars == << synthVars, pendingFiles, sqsVars, readerVars, cdkVars >>

\* The function is invoked: a fresh processingId, nothing done yet.
StartProcessing ==
  /\ bedrockPc = "idle"
  /\ processingId < MaxInvocations
  /\ processingId' = processingId + 1
  /\ webhookUrl' = ""
  /\ bedrockResult' = ""
  /\ s3Location' = ""
  /\ sdkCalls' = << >>
  /\ failure' = ""
  /\ result' = NoResult
  /\ bedrockPc' = "step1"
  /\ UNCHANGED << s3Objects, eventBus, notBedrockVars >>

\* Step 1: getWebhookUrl.
GetWebhookUrl(outcome) ==
  /\ bedrockPc = "step1"
  /\ sdkCalls' = Append(sdkCalls, "GetSecretValue")
  /\ IF outcome = "ok"
     THEN /\ webhookUrl' = "https://hooks.example/endpoint"
          /\ bedrockPc' = "step2"
          /\ UNCHANGED failure
     ELSE /\ failure' = SecretError(outcome)
          /\ bedrockPc' = "errorEvent"
          /\ UNCHANGED webhookUrl
  /\ UNCHANGED << processingId, bedrockResult, s3Location, result, s3Objects,
                  eventBus, notBedrockVars >>

\* A handler that does not await step 1 before it invokes the model.
ProcessWithBedrockUnawaited(outcome) ==
  /\ bedrockPc \in {"step1", "step2"}
  /\ sdkCalls' = Append(sdkCalls, "InvokeModel")
  /\ IF outcome \in {"ok", "EmptyContent"}
     THEN /\ bedrockResult' = BedrockText(outcome)
          /\ bedrockPc' = "step3"
          /\ UNCHANGED failure
     ELSE /\ failure' = BedrockError(outcome)
          /\ bedrockPc' = "errorEvent"
          /\ UNCHANGED bedrockResult
  /\ UNCHANGED << processingId, webhookUrl, s3Location, result, s3Objects,
                  eventBus, notBedrockVars >>

\* Step 2: processWithBedrock.
ProcessWithBedrock(outcome) ==
  /\ bedrockPc = "step2"
  /\ sdkCalls' = Append(sdkCalls, "InvokeModel")
  /\ IF outcome \in {"ok", "EmptyContent"}
     THEN /\ bedrockResult' = BedrockText(outcome)
          /\ bedrockPc' = "step3"
          /\ UNCHANGED failure
     ELSE /\ failure' = BedrockError(outcome)
          /\ bedrockPc' = "errorEvent"
          /\ UNCHANGED bedrockResult
  /\ UNCHANGED << processingId, webhookUrl, s3Location, result, s3Objects,
                  eventBus, notBedrockVars >>

\* Step 3: saveToS3 puts the result object under the processingId.
SaveToS3(outcome) ==
  /\ bedrockPc = "step3"
  /\ sdkCalls' = Append(sdkCalls, "PutObject")
  /\ IF outcome = "ok"
     THEN /\ s3Objects' = s3Objects \cup {processingId}
          /\ s3Location' = "s3://bucket/processing-results/" \o ToString(processingId)
          /\ bedrockPc' = "step4"
          /\ UNCHANGED failure
     ELSE /\ failure' = S3Error(outcome)
          /\ bedrockPc' = "errorEvent"
          /\ UNCHANGED << s3Objects, s3Location >>
  /\ UNCHANGED << processingId, webhookUrl, bedrockResult, result, eventBus,
                  notBedrockVars >>

\* A step 4 that throws although EventBridge has taken the success event.
SendSuccessEventThrowingAfterAck(outcome) ==
  /\ bedrockPc = "step4"
  /\ sdkCalls' = Append(sdkCalls, "PutEvents:success")
  /\ eventBus' = eventBus \cup
                   {ProcessingEvent(processingId, "success", s3Location, "")}
  /\ IF outcome = "ok"
     THEN /\ result' = [statusCode |-> 200, processingId |-> processingId, error |-> ""]
          /\ bedrockPc' = "returned"
          /\ UNCHANGED failure
     ELSE /\ failure' = EventError(outcome)
          /\ bedrockPc' = "errorEvent"
          /\ UNCHANGED result
  /\ UNCHANGED << processingId, webhookUrl, bedrockResult, s3Location, s3Objects,
                  notBedrockVars >>

\* Step 4: sendToEventBridge with status success, then the 200 response.
SendSuccessEvent(outcome) ==
  /\ bedrockPc = "step4"
  /\ sdkCalls' = Append(sdkCalls, "PutEvents:success")
  /\ IF outcome = "ok"
     THEN /\ eventBus' = eventBus \cup
                           {ProcessingEvent(processingId, "success", s3Location, "")}
          /\ result' = [statusCode |-> 200, processingId |-> processingId, error |-> ""]
          /\ bedrockPc' = "returned"
          /\ UNCHANGED failure
     ELSE /\ failure' = EventError(outcome)
          /\ bedrockPc' = "errorEvent"
          /\ UNCHANGED << eventBus, result >>
  /\ UNCHANGED << processingId, webhookUrl, bedrockResult, s3Location, s3Objects,
                  notBedrockVars >>

\* A catch block without the inner try: a failing error event makes the
\* handler's promise reject, so that there is no response object.
SendErrorEventUncaught(outcome) ==
  /\ bedrockPc = "errorEvent"
  /\ sdkCalls' = Append(sdkCalls, "PutEvents:error")
  /\ eventBus' = IF outcome = "ok"
                 THEN eventBus \cup {ProcessingEvent(processingId, "error", "", failure)}
                 ELSE eventBus
  /\ result' = IF outcome = "ok"
               THEN [statusCode |-> 500, processingId |-> processingId, error |-> failure]
               ELSE NoResult
  /\ bedrockPc' = "returned"
  /\ UNCHANGED << processingId, webhookUrl, bedrockResult, s3Location, failure,
                  s3Objects, notBedrockVars >>

\* The catch block: sendToEventBridge with status error, whose own failure
\* is only logged, then the 500 response.
SendErrorEvent(outcome) ==
  /\ bedrockPc = "errorEvent"
  /\ sdkCalls' = Append(sdkCalls, "PutEvents:error")
  /\ eventBus' = IF outcome = "ok"
                 THEN eventBus \cup {ProcessingEvent(processingId, "error", "", failure)}
                 ELSE eventBus
  /\ result' = [statusCode |-> 500, processingId |-> processingId, error |-> failure]
  /\ bedrockPc' = "returned"
  /\ UNCHANGED << processingId, webhookUrl, bedrockResult, s3Location, failure,
                  s3Objects, notBedrockVars >>

\* The invocation is over; the bucket and the bus keep what they got.
EndProcessing ==
  /\ bedrockPc = "returned"
  /\ bedrockPc' = "idle"
  /\ UNCHANGED << processingId, webhookUrl, bedrockResult, s3Location, sdkCalls,
                  failure, result, s3Objects, eventBus, notBedrockVars >>

NextBedrock ==
  \/ StartProcessing
  \/ \E outcome \in SecretOutcomes : GetWebhookUrl(outcome)
  \/ \E outcome \in BedrockOutcomes : ProcessWithBedrock(outcome)
  \/ \E outcome \in S3Outcomes : SaveToS3(outcome)
  \/ \E outcome \in EventOutcomes : SendSuccessEvent(outcome)
  \/ \E outcome \in EventOutcomes : SendErrorEvent(outcome)
  \/ EndProcessing

SpecBedrock == Init /\ [][NextBedrock]_vars

(***************************************************************************)
(* simple-s3-reader: one invocation after the other                        *)
(***************************************************************************)

notReaderVars == << synthVars, pendingFiles, sqsVars, bedrockVars, cdkVars >>

\* clearTimeout(timeout)
clearTimeout(t) == IF t = "armed" THEN "cleared" ELSE t

\* The function is invoked: the two checks, then the GetObjectCommand.
InvokeReader(bucket, file) ==
  /\ readerPc = "idle"
  /\ readerInput' = [BUCKET_NAME |-> bucket, FILE_NAME |-> file]
  /\ LET checked == ValidateInput(bucket, file)
     IN  IF checked.statusCode # 0
         THEN /\ readerResponse' = checked
              /\ readerLog' = << checked.error >>
              /\ readerPc' = "returned"
              /\ UNCHANGED getObjectCalls
         ELSE /\ getObjectCalls' =
                   Append(getObjectCalls,
                          [Bucket |-> bucket.value, Key |-> OrDefault(file, SampleJson)])
              /\ readerPc' = "sending"
              /\ UNCHANGED << readerResponse, readerLog >>
  /\ UNCHANGED << objectBody, streamState, chunks, promise, timeout, settleCalls,
                  caught,
                  notReaderVars >>

\* s3Client.send throws: the catch block logs and answers by handleS3Error.
GetObjectFails(thrown) ==
  /\ readerPc = "sending"
  /\ readerResponse' = handleS3Error(thrown)
  /\ readerLog' = readerLog \o << "S3ReadError", handleS3Error(thrown).error >>
  /\ caught' = thrown
  /\ readerPc' = "returned"
  /\ UNCHANGED << readerInput, getObjectCalls, objectBody, streamState, chunks,
                  promise, timeout, settleCalls, notReaderVars >>

\* The response has no Body: streamToString throws before it registers a
\* listener, and the catch block answers.
GetObjectWithoutBody ==
  /\ readerPc = "sending"
  /\ promise' = Settle(promise, "rejected", "", EmptyStreamError)
  /\ settleCalls' = Append(settleCalls, "undefined")
  /\ readerResponse' = handleS3Error(EmptyStreamError)
  /\ readerLog' = readerLog \o << "StreamError", "S3ReadError",
                                  handleS3Error(EmptyStreamError).error >>
  /\ caught' = EmptyStreamError
  /\ readerPc' = "returned"
  /\ UNCHANGED << readerInput, getObjectCalls, objectBody, streamState, chunks,
                  timeout, notReaderVars >>

\* The response has a Body: streamToString registers its listeners, arms the
\* timer and the handler awaits the promise.
GetObjectWithBody(body) ==
  /\ readerPc = "sending"
  /\ objectBody' = body
  /\ streamState' = "open"
  /\ timeout' = "armed"
  /\ readerPc' = "streaming"
  /\ UNCHANGED << readerInput, getObjectCalls, chunks, promise, settleCalls,
                  readerLog, readerResponse, caught,
                  notReaderVars >>

\* 'data': the next chunk of the body.
StreamData ==
  /\ streamState = "open"
  /\ Len(chunks) < Len(objectBody)
  /\ chunks' = Append(chunks, objectBody[Len(chunks) + 1])
  /\ UNCHANGED << readerPc, readerInput, getObjectCalls, objectBody, streamState,
                  promise, timeout, settleCalls, readerLog, readerResponse,
                  caught,
                  notReaderVars >>

\* 'end', after the last chunk: both 'end' listeners run.
StreamEnd ==
  /\ streamState = "open"
  /\ Len(chunks) = Len(objectBody)
  /\ promise' = Settle(promise, "resolved", concat(chunks), NoError)
  /\ settleCalls' = Append(settleCalls, "end")
  /\ timeout' = clearTimeout(timeout)
  /\ streamState' = "ended"
  /\ UNCHANGED << readerPc, readerInput, getObjectCalls, objectBody, chunks,
                  readerLog, readerResponse, caught,
                  notReaderVars >>

\* 'error', at any point of the body: both 'error' listeners run.
StreamError(thrown) ==
  /\ streamState = "open"
  /\ promise' = Settle(promise, "rejected", "", thrown)
  /\ settleCalls' = Append(settleCalls, "error")
  /\ timeout' = clearTimeout(timeout)
  /\ streamState' = "errored"
  /\ readerLog' = Append(readerLog, "StreamError")
  /\ UNCHANGED << readerPc, readerInput, getObjectCalls, objectBody, chunks,
                  readerResponse, caught,
                  notReaderVars >>

\* The 30 seconds are over and the timer was not cleared.
TimerFires ==
  /\ timeout = "armed"
  /\ promise' = Settle(promise, "rejected", "", StreamTimeoutError)
  /\ settleCalls' = Append(settleCalls, "timeout")
  /\ timeout' = "fired"
  /\ readerLog' = Append(readerLog, "TimeoutError")
  /\ UNCHANGED << readerPc, readerInput, getObjectCalls, objectBody, streamState,
                  chunks, readerResponse, caught,
                  notReaderVars >>

\* The awaited promise has settled: the handler goes on and returns.
ReaderResumes ==
  /\ readerPc = "streaming"
  /\ promise.state # "pending"
  /\ readerResponse' = AfterStream(promise)
  /\ readerLog' = IF promise.state = "resolved"
                  THEN IF ParsesAsJson(promise.text)
                       THEN readerLog
                       ELSE Append(readerLog, "JsonParseWarning")
                  ELSE readerLog \o << "S3ReadError", AfterStream(promise).error >>
  /\ caught' = IF promise.state = "resolved" THEN caught ELSE promise.reason
  /\ readerPc' = "returned"
  /\ UNCHANGED << readerInput, getObjectCalls, objectBody, streamState, chunks,
                  promise, timeout, settleCalls, notReaderVars >>

\* The invocation is over.
EndReader ==
  /\ readerPc = "returned"
  /\ readerPc' = "idle"
  /\ readerInput' = NoReaderInput
  /\ getObjectCalls' = << >>
  /\ objectBody' = << >>
  /\ streamState' = "none"
  /\ chunks' = << >>
  /\ promise' = Pending
  /\ timeout' = "none"
  /\ settleCalls' = << >>
  /\ caught' = NoError
  /\ readerLog' = << >>
  /\ readerResponse' = NoReaderResponse
  /\ UNCHANGED notReaderVars

NextReader ==
  \/ \E bucket \in BucketNames, file \in FileNames : InvokeReader(bucket, file)
  \/ \E thrown \in S3Errors : GetObjectFails(thrown)
  \/ GetObjectWithoutBody
  \/ \E body \in Bodies : GetObjectWithBody(body)
  \/ StreamData
  \/ StreamEnd
  \/ \E thrown \in StreamErrors : StreamError(thrown)
  \/ TimerFires
  \/ ReaderResumes
  \/ EndReader

SpecReader == Init /\ [][NextReader]_vars

(***************************************************************************)
(* The constructs, each instantiated in a stack of its own                  *)
(***************************************************************************)

notCdkVars == << synthVars, pendingFiles, sqsVars, bedrockVars, readerVars >>

\* new SQSQueueConstruct(stack, "TestQueue", p)
NewSQSQueueConstruct(p) ==
  /\ cdkPc = "idle"
  /\ construct' = "SQSQueueConstruct"
  /\ props' = p
  /\ thrownMessage' = ""
  /\ stackResources' = SQSQueueConstruct(p).resources
  /\ queueConstruct' = SQSQueueConstruct(p).fields
  /\ roleStatements' = << >>
  /\ cdkPc' = "constructed"
  /\ UNCHANGED notCdkVars

\* new DataDeploymentConstruct(stack, "TestDeployment", p)
NewDataDeploymentConstruct(p) ==
  /\ cdkPc = "idle"
  /\ construct' = "DataDeploymentConstruct"
  /\ props' = p
  /\ thrownMessage' = DataDeploymentConstruct(p).thrown
  /\ stackResources' = DataDeploymentConstruct(p).resources
  /\ queueConstruct' = NoQueueConstruct
  /\ roleStatements' = << >>
  /\ cdkPc' = "constructed"
  /\ UNCHANGED notCdkVars

\* new IAMPermissionConstruct(stack, "TestPermission", p)
NewIAMPermissionConstruct(p) ==
  /\ cdkPc = "idle"
  /\ construct' = "IAMPermissionConstruct"
  /\ props' = p
  /\ thrownMessage' = IAMPermissionConstruct(p).thrown
  /\ stackResources' = {}
  /\ queueConstruct' = NoQueueConstruct
  /\ roleStatements' = IAMPermissionConstruct(p).statements
  /\ cdkPc' = "constructed"
  /\ UNCHANGED notCdkVars

\* new StandardIamTestStack(app, "TestStack"), with the one or the other
\* version of the permission construct and a table with or without a key.
NewStandardIamTestStack(version, tbl) ==
  /\ cdkPc = "idle"
  /\ construct' = "StandardIamTestStack"
  /\ props' = [version |-> version, dynamoDBTable |-> tbl]
  /\ thrownMessage' = ""
  /\ stackResources' = SQSQueueConstruct(StandardQueueProps).resources
  /\ queueConstruct' = SQSQueueConstruct(StandardQueueProps).fields
  /\ roleStatements' = StandardIamTestStack(version, tbl)
  /\ cdkPc' = "constructed"
  /\ UNCHANGED notCdkVars

\* The app is thrown away, as after each test.
DiscardApp ==
  /\ cdkPc = "constructed"
  /\ cdkPc' = "idle"
  /\ construct' = ""
  /\ props' = NoProps
  /\ thrownMessage' = ""
  /\ stackResources' = {}
  /\ queueConstruct' = NoQueueConstruct
  /\ roleStatements' = << >>
  /\ UNCHANGED notCdkVars

\* A stack is built only when none is there: the guard stands before the
\* choice of the props.
NextCdk ==
  \/ /\ cdkPc = "idle"
     /\ \E p \in SQSQueueConstructProps : NewSQSQueueConstruct(p)
  \/ /\ cdkPc = "idle"
     /\ \E p \in DataDeploymentConstructProps : NewDataDeploymentConstruct(p)
  \/ /\ cdkPc = "idle"
     /\ \E p \in IAMPermissionConstructProps : NewIAMPermissionConstruct(p)
  \/ /\ cdkPc = "idle"
     /\ \E version \in ConstructVersions :
          \E tbl \in {Target("arn:table", Undefined),
                      Target("arn:table", Defined("arn:key"))} :
            NewStandardIamTestStack(version, tbl)
  \/ DiscardApp

SpecCdk == Init /\ [][NextCdk]_vars

(***************************************************************************)
(* Properties                                                              *)
(***************************************************************************)

PolicyActions == UNION {policy[i].actions : i \in DOMAIN policy}

Detected(namespace, operation) ==
  \E i \in DOMAIN detectedCallSites :
    /\ detectedCallSites[i].namespace = namespace
    /\ detectedCallSites[i].operation = operation

OnlyDetected(namespace, operation) ==
  /\ detectedCallSites # << >>
  /\ \A i \in DOMAIN detectedCallSites :
       /\ detectedCallSites[i].namespace = namespace
       /\ detectedCallSites[i].operation = operation

\* A statement of the policy that grants the KMS action `name` under the
\* condition StringLike kms:ViaService = <service>.*.amazonaws.com.
IsKmsStatement(i, name, service) ==
  /\ Act("kms", name) \in policy[i].actions
  /\ policy[i].condition.operator = "StringLike"
  /\ policy[i].condition.key = "kms:ViaService"
  /\ policy[i].condition.value = service \o ".*.amazonaws.com"

\* C1: when a run has reported, a service hint is in unmatchedHints exactly
\* when no action of any emitted statement has the hint as its namespace, and
\* unmatchedHints holds nothing but hints; hints {sqs, dynamodb} over a source
\* with only a DynamoDB PutCommand give unmatchedHints = {sqs}.
C1_CoverageReport ==
  stage = "done" =>
    /\ unmatchedHints \subseteq request.ServiceHints
    /\ \A h \in request.ServiceHints :
         (h \in unmatchedHints) <=>
           ~(\E i \in DOMAIN policy : \E a \in policy[i].actions : a.ns = h)
    /\ (request.ServiceHints = {"sqs", "dynamodb"} /\ OnlyDetected("dynamodb", "Put"))
         => unmatchedHints = {"sqs"}

C1_Witness ==
  /\ stage = "done"
  /\ request.ServiceHints = {"sqs", "dynamodb"}
  /\ OnlyDetected("dynamodb", "Put")
  /\ unmatchedHints = {"sqs"}
  /\ \E i \in DOMAIN policy : Act("dynamodb", "PutItem") \in policy[i].actions

\* The IAM actions the report attributes to a detected SDK command.
AttributedTo(cs) ==
  CASE cs.namespace = "s3" /\ cs.operation = "GetObject" ->
         {Act("s3", n) : n \in {"GetObject", "GetObjectLegalHold",
                                "GetObjectRetention", "GetObjectTagging",
                                "GetObjectVersion"}}
         \cup {Act("s3-object-lambda", "GetObject")}
    [] cs.namespace = "s3" /\ cs.operation = "PutObject" ->
         {Act("s3", n) : n \in {"PutObject", "PutObjectAcl", "PutObjectLegalHold",
                                "PutObjectRetention", "PutObjectTagging"}}
         \cup {Act("s3-object-lambda", "PutObject")}
    [] cs.namespace = "dynamodb" /\ cs.operation = "Put" ->
         {Act("dynamodb", "PutItem")}
    [] cs.namespace = "dynamodb" /\ cs.operation = "Query" ->
         {Act("dynamodb", "Query")}
    [] cs.namespace = "sqs" /\ cs.operation = "ReceiveMessage" ->
         {Act("sqs", "ReceiveMessage")}
    [] cs.namespace = "secretsmanager" /\ cs.operation = "GetSecretValue" ->
         {Act("secretsmanager", "GetSecretValue")}
    [] cs.namespace = "bedrock" /\ cs.operation = "InvokeModel" ->
         {Act("bedrock", n) : n \in {"InvokeModel", "CallWithBearerToken",
                                     "ApplyGuardrail"}}
    [] cs.namespace = "events" /\ cs.operation = "PutEvents" ->
         {Act("events", "PutEvents")}
    [] OTHER -> {}

FromCallSite(a) ==
  \E i \in DOMAIN detectedCallSites : a \in AttributedTo(detectedCallSites[i])

\* Statement i's KMS action a is the companion of an action of the policy that
\* comes from a call site and belongs to the service of i's condition.
FromExpander(i, a) ==
  /\ a.ns = "kms"
  /\ \E b \in PolicyActions :
       /\ FromCallSite(b)
       /\ b.ns \in {"s3", "dynamodb", "secretsmanager", "sqs"}
       /\ IsKmsStatement(i, a.name, b.ns)

\* C2: every action of every statement of an assembled policy is attributed
\* to a detected call site, or is a KMS action in a statement conditioned on
\* the service of an action that is attributed to a detected call site.
C2_Provenance ==
  stage \in {"assembled", "done"} =>
    \A i \in DOMAIN policy : \A a \in policy[i].actions :
      FromCallSite(a) \/ FromExpander(i, a)

\* Both origins occur, beside a call site that maps to nothing.
C2_Witness ==
  /\ stage = "done"
  /\ Detected("s3", "UnknownOperation")
  /\ Detected("secretsmanager", "GetSecretValue")
  /\ \E i \in DOMAIN policy : Act("secretsmanager", "GetSecretValue") \in policy[i].actions
  /\ \E i \in DOMAIN policy : IsKmsStatement(i, "Decrypt", "secretsmanager")

Assembled == stage \in {"assembled", "done"}

\* C4 as stated: no two distinct statements of an assembled policy have the
\* same (resource-set, condition) pair.
C4_OnePerResourcesAndCondition ==
  Assembled =>
    \A i, j \in DOMAIN policy :
      (i # j) => ~(/\ policy[i].resources = policy[j].resources
                   /\ policy[i].condition = policy[j].condition)

StatementNamespaces(i) == {a.ns : a \in policy[i].actions}

\* The tuples that have statement i's namespace, resource-set and condition.
TuplesOf(i) ==
  {t \in Range(tuples) : /\ t.action.ns \in StatementNamespaces(i)
                         /\ t.resources = policy[i].resources
                         /\ t.condition = policy[i].condition}

\* C4, amended: the actions of a statement share one namespace; no two
\* distinct statements have the same (namespace, resource-set, condition)
\* triple; every tuple is in a statement, and the actions of a statement are
\* the union of the actions of all tuples with its triple.
C4_OnePerNamespaceResourcesAndCondition ==
  Assembled =>
    /\ \A i \in DOMAIN policy :
         /\ Cardinality(StatementNamespaces(i)) = 1
         /\ policy[i].actions = {t.action : t \in TuplesOf(i)}
    /\ \A i, j \in DOMAIN policy :
         (i # j) => ~(/\ StatementNamespaces(i) = StatementNamespaces(j)
                      /\ policy[i].resources = policy[j].resources
                      /\ policy[i].condition = policy[j].condition)
    /\ \A t \in Range(tuples) : \E i \in DOMAIN policy : t \in TuplesOf(i)

\* Two call sites are merged into one s3 statement, and the s3-object-lambda
\* statement with the same resources and no condition stays apart.
C4_Witness ==
  /\ stage = "done"
  /\ Detected("s3", "GetObject")
  /\ Detected("s3", "PutObject")
  /\ \E i, j \in DOMAIN policy :
       /\ i # j
       /\ {Act("s3", "GetObject"), Act("s3", "PutObject")} \subseteq policy[i].actions
       /\ StatementNamespaces(j) = {"s3-object-lambda"}
       /\ policy[i].resources = policy[j].resources
       /\ policy[i].condition = policy[j].condition

\* C5: every action of a statement stems from a tuple that carries the
\* statement's resources and condition, every tuple is in a statement that
\* carries the tuple's own condition, and with GetObject and GetSecretValue
\* both detected kms:Decrypt is in two statements, one conditioned on
\* s3.*.amazonaws.com and one on secretsmanager.*.amazonaws.com.
C5_NotMergedAcrossConditions ==
  Assembled =>
    /\ \A i \in DOMAIN policy : \A a \in policy[i].actions :
         \E t \in Range(tuples) : /\ t.action = a
                                  /\ t.resources = policy[i].resources
                                  /\ t.condition = policy[i].condition
    /\ \A t \in Range(tuples) :
         \E i \in DOMAIN policy : /\ t.action \in policy[i].actions
                                  /\ t.condition = policy[i].condition
    /\ (Detected("s3", "GetObject") /\ Detected("secretsmanager", "GetSecretValue"))
         => \E i, j \in DOMAIN policy :
              /\ i # j
              /\ IsKmsStatement(i, "Decrypt", "s3")
              /\ IsKmsStatement(j, "Decrypt", "secretsmanager")

C5_Witness ==
  /\ stage = "done"
  /\ Detected("s3", "GetObject")
  /\ Detected("secretsmanager", "GetSecretValue")
  /\ Cardinality({i \in DOMAIN policy : Act("kms", "Decrypt") \in policy[i].actions}) = 2

\* (service, access-class) has an action in the policy.
Triggered(service, class) ==
  \E a \in PolicyActions : a.ns = service /\ AccessClass(a) = class

\* The KMS action the generated policies show for the pair.
ObservedCompanion(service, class) ==
  IF service = "s3" /\ class = "write" THEN "GenerateDataKey" ELSE "Decrypt"

\* C6: for every (service, access-class) pair that has an action in the
\* policy, exactly one statement grants the pair's KMS action under the
\* service's kms:ViaService condition, however many call sites and actions of
\* the pair there are; and there are no more KMS statements than such pairs.
C6_OneKmsStatementPerPair ==
  Assembled =>
    /\ \A service \in {"s3", "dynamodb", "secretsmanager", "sqs"} :
         \A class \in {"read", "write"} :
           Triggered(service, class) =>
             Cardinality({i \in DOMAIN policy :
                            IsKmsStatement(i, ObservedCompanion(service, class), service)}) = 1
    /\ Cardinality({i \in DOMAIN policy : StatementNamespaces(i) = {"kms"}})
         <= Cardinality({p \in {"s3", "dynamodb", "secretsmanager", "sqs"}
                                 \X {"read", "write"} : Triggered(p[1], p[2])})

\* Two GetObject call sites, five read actions each, one KMS statement.
C6_Witness ==
  /\ stage = "done"
  /\ Len(detectedCallSites) >= 2
  /\ OnlyDetected("s3", "GetObject")
  /\ Cardinality({i \in DOMAIN policy : StatementNamespaces(i) = {"kms"}}) = 1

\* C7 as stated: on each of the four services a read-class action adds
\* kms:Decrypt and a write-class action adds kms:GenerateDataKey, under the
\* service's kms:ViaService condition.
C7_CompanionByAccessClass ==
  stage = "done" =>
    \A a \in PolicyActions :
      a.ns \in {"s3", "dynamodb", "secretsmanager", "sqs"} =>
        /\ AccessClass(a) = "read" => \E i \in DOMAIN policy : IsKmsStatement(i, "Decrypt", a.ns)
        /\ AccessClass(a) = "write" =>
             \E i \in DOMAIN policy : IsKmsStatement(i, "GenerateDataKey", a.ns)

\* C7, amended: a read-class action adds kms:Decrypt on each of the four
\* services; a write-class action adds kms:GenerateDataKey on S3 and
\* kms:Decrypt (never kms:GenerateDataKey) on DynamoDB; and a KMS action under
\* a service's condition is only there for such an action of that service.
C7_CompanionByServiceAndAccessClass ==
  stage = "done" =>
    /\ \A a \in PolicyActions :
         a.ns \in {"s3", "dynamodb", "secretsmanager", "sqs"} =>
           /\ AccessClass(a) = "read" =>
                \E i \in DOMAIN policy : IsKmsStatement(i, "Decrypt", a.ns)
           /\ (AccessClass(a) = "write" /\ a.ns = "s3") =>
                \E i \in DOMAIN policy : IsKmsStatement(i, "GenerateDataKey", "s3")
           /\ (AccessClass(a) = "write" /\ a.ns = "dynamodb") =>
                \E i \in DOMAIN policy : IsKmsStatement(i, "Decrypt", "dynamodb")
    /\ \A i \in DOMAIN policy :
         \A service \in {"s3", "dynamodb", "secretsmanager", "sqs"} :
           /\ IsKmsStatement(i, "GenerateDataKey", service) =>
                service = "s3" /\ Triggered("s3", "write")
           /\ IsKmsStatement(i, "Decrypt", service) =>
                \/ Triggered(service, "read")
                \/ service = "dynamodb" /\ Triggered("dynamodb", "write")

C7_Witness ==
  /\ stage = "done"
  /\ Detected("dynamodb", "Put")
  /\ Detected("s3", "PutObject")
  /\ \E i \in DOMAIN policy : IsKmsStatement(i, "Decrypt", "dynamodb")
  /\ \E i \in DOMAIN policy : IsKmsStatement(i, "GenerateDataKey", "s3")

\* C8: whether or not the target resources are encrypted with a
\* customer-managed key, every read- or write-class action of S3, DynamoDB,
\* Secrets Manager or SQS in the policy comes with a statement that grants a
\* KMS action on arn:aws:kms:*:*:key/* under that service's kms:ViaService
\* condition.
C8_ExpansionUnconditional ==
  stage = "done" =>
    \A cmk \in BOOLEAN :
      customerManagedKey = cmk =>
        \A a \in PolicyActions :
          (a.ns \in {"s3", "dynamodb", "secretsmanager", "sqs"}
             /\ AccessClass(a) \in {"read", "write"}) =>
            \E i \in DOMAIN policy :
              /\ policy[i].resources = {"arn:aws:kms:*:*:key/*"}
              /\ \/ IsKmsStatement(i, "Decrypt", a.ns)
                 \/ IsKmsStatement(i, "GenerateDataKey", a.ns)

\* The bucket has no customer-managed key and the KMS statement is there.
C8_Witness ==
  /\ stage = "done"
  /\ ~customerManagedKey
  /\ Act("s3", "GetObject") \in PolicyActions
  /\ \E i \in DOMAIN policy : IsKmsStatement(i, "Decrypt", "s3")

\* C9: a detected GetObjectCommand of the S3 client yields a policy with
\* s3:GetObject, s3:GetObjectLegalHold, s3:GetObjectRetention,
\* s3:GetObjectTagging, s3:GetObjectVersion, s3-object-lambda:GetObject and a
\* kms:Decrypt statement conditioned on kms:ViaService = s3.*.amazonaws.com.
C9_ScenarioA ==
  (stage = "done" /\ Detected("s3", "GetObject")) =>
    /\ { Act("s3", "GetObject"), Act("s3", "GetObjectLegalHold"),
         Act("s3", "GetObjectRetention"), Act("s3", "GetObjectTagging"),
         Act("s3", "GetObjectVersion"), Act("s3-object-lambda", "GetObject") }
         \subseteq PolicyActions
    /\ \E i \in DOMAIN policy :
         /\ policy[i].actions = {Act("kms", "Decrypt")}
            \/ policy[i].actions = {Act("kms", "Decrypt"), Act("kms", "GenerateDataKey")}
         /\ policy[i].condition =
              [operator |-> "StringLike", key |-> "kms:ViaService",
               value |-> "s3.*.amazonaws.com"]

\* The policy of the simple-s3-reader query: three statements.
C9_Witness ==
  /\ stage = "done"
  /\ OnlyDetected("s3", "GetObject")
  /\ Len(policy) = 3
  /\ policy[1].actions = {Act("kms", "Decrypt")}
  /\ Act("s3", "GetObject") \in policy[2].actions
  /\ policy[3].actions = {Act("s3-object-lambda", "GetObject")}

\* C10: when every detected call site is a PutCommand of the DynamoDB
\* document client, dynamodb:PutItem is the only DynamoDB action of the policy
\* and the policy has kms:Decrypt conditioned on dynamodb.*.amazonaws.com.
C10_ScenarioB ==
  (stage = "done" /\ OnlyDetected("dynamodb", "Put")) =>
    /\ {a \in PolicyActions : a.ns = "dynamodb"} = {Act("dynamodb", "PutItem")}
    /\ \E i \in DOMAIN policy :
         /\ policy[i].actions = {Act("kms", "Decrypt")}
         /\ policy[i].resources = {"arn:aws:kms:*:*:key/*"}
         /\ policy[i].condition =
              [operator |-> "StringLike", key |-> "kms:ViaService",
               value |-> "dynamodb.*.amazonaws.com"]

\* The policy of the sqs-dynamodb-processor query: two statements.
C10_Witness ==
  /\ stage = "done"
  /\ OnlyDetected("dynamodb", "Put")
  /\ Len(policy) = 2
  /\ policy[1].actions = {Act("dynamodb", "PutItem")}
  /\ policy[1].resources = {"arn:aws:dynamodb:*:*:table/*"}
  /\ policy[2].actions = {Act("kms", "Decrypt")}

\* The broadest wildcard patterns of the services: none names a resource, an
\* account or a region.
BroadestWildcards ==
  { "arn:aws:s3:*:*:accesspoint/*/object/*", "arn:aws:s3:::*/*",
    "arn:aws:dynamodb:*:*:table/*", "arn:aws:dynamodb:*:*:table/*/index/*",
    "arn:aws:sqs:*:*:*", "arn:aws:secretsmanager:*:*:secret:*",
    "arn:aws:bedrock:*:*:guardrail-profile/*", "arn:aws:bedrock:*:*:guardrail/*",
    "arn:aws:events:*:*:event-bus/*", "arn:aws:kms:*:*:key/*", "*" }

\* The names the source writes out at a detected call site.
SuppliedNames ==
  {detectedCallSites[i].clue.name :
     i \in {j \in DOMAIN detectedCallSites : detectedCallSites[j].clue.kind = "literal"}}

\* C11: a tuple of a call site whose resource is not written out in the
\* source (none given, or read from an environment variable) carries the
\* broadest wildcard patterns of its action, and every resource of every
\* statement is a broadest wildcard or a pattern built from a name the source
\* writes out at a detected call site.
C11_NeverGuesses ==
  stage \in {"resolved", "expanded", "assembled", "done"} =>
    /\ \A t \in Range(tuples) :
         detectedCallSites[t.origin.site].clue.kind # "literal" =>
           /\ t.resources \subseteq BroadestWildcards
           /\ t.resources = ResourcePatterns(t.action)
    /\ \A i \in DOMAIN policy : \A r \in policy[i].resources :
         \/ r \in BroadestWildcards
         \/ \E n \in SuppliedNames : r = "arn:aws:s3:::" \o n \o "/*"

\* Two GetObject call sites, one on the bucket of an environment variable and
\* one on a literal bucket: a wildcard statement and a narrowed one.
C11_Witness ==
  /\ stage = "done"
  /\ \E i, j \in DOMAIN detectedCallSites :
       /\ detectedCallSites[i].clue = [kind |-> "env", name |-> "BUCKET_NAME"]
       /\ detectedCallSites[j].clue.kind = "literal"
  /\ \E i, j \in DOMAIN policy :
       /\ Act("s3", "GetObject") \in policy[i].actions
       /\ policy[i].resources = {"arn:aws:s3:*:*:accesspoint/*/object/*", "arn:aws:s3:::*/*"}
       /\ Act("s3", "GetObject") \in policy[j].actions
       /\ policy[j].resources = {"arn:aws:s3:::reports/*"}

SomeFileUnparsable ==
  \E i \in DOMAIN request.SourceFiles : ~request.SourceFiles[i].parsable

\* C12: an invocation with a source file that does not parse ends failed with
\* ParseError and never has call sites, tuples or statements, whatever the
\* files that do parse contain; and an invocation only fails that way.
C12_ParseErrorIsFatal ==
  /\ SomeFileUnparsable =>
       /\ stage \in {"invoked", "failed"}
       /\ detectedCallSites = << >>
       /\ tuples = << >>
       /\ policy = << >>
  /\ stage = "failed" => (error = "ParseError" /\ SomeFileUnparsable)
  /\ error = "ParseError" => stage = "failed"

\* index.ts parses and has a GetObjectCommand, helper.ts does not parse.
C12_Witness ==
  /\ stage = "failed"
  /\ error = "ParseError"
  /\ Len(request.SourceFiles) = 2
  /\ request.SourceFiles[1].parsable
  /\ \E i \in DOMAIN request.SourceFiles[1].calls :
       request.SourceFiles[1].calls[i].operation = "GetObject"
  /\ ~request.SourceFiles[2].parsable
  /\ policy = << >>

\* A call site of an operation the report or the construct knows.
KnownOperation(cs) == AttributedTo(cs) # {}

\* The detected call sites without those of unknown operations.
KnownCallSites == SelectSeq(detectedCallSites, KnownOperation)

\* C13: in an assembled policy a call site of an operation the table does
\* not know is a coverage gap and the origin of no tuple, only such call
\* sites are coverage gaps, the run has not failed, and the statement list is
\* the one the pipeline yields for the detected call sites without them.
C13_UnmappedIsSkipped ==
  Assembled =>
    /\ \A i \in DOMAIN detectedCallSites :
         /\ (i \in coverageGaps) <=> ~KnownOperation(detectedCallSites[i])
         /\ ~KnownOperation(detectedCallSites[i]) =>
              \A t \in Range(tuples) : t.origin.site # i
    /\ error # "ParseError"
    /\ policy = Assemble(ExpandTuples(ResolveTuples(MapCallSites(KnownCallSites),
                                                    KnownCallSites)))

\* An unknown operation before a PutCommand: the gap is logged and the policy
\* is the one of the PutCommand alone.
C13_Witness ==
  /\ stage = "done"
  /\ Len(detectedCallSites) = 2
  /\ detectedCallSites[1].operation = "UnknownOperation"
  /\ detectedCallSites[2].operation = "Put"
  /\ coverageGaps = {1}
  /\ Len(policy) = 2
  /\ policy[1].actions = {Act("dynamodb", "PutItem")}
  /\ policy[2].actions = {Act("kms", "Decrypt")}

\* No source file of the request has an SDK command construction.
NoCallSiteInSource ==
  /\ request.SourceFiles # << >>
  /\ \A i \in DOMAIN request.SourceFiles :
       request.SourceFiles[i].parsable /\ request.SourceFiles[i].calls = << >>

\* C14: a run over source files that all parse and hold no SDK call site does
\* not fail, and once it has assembled its policy has an empty statement list.
C14_EmptyPolicyOnNoCallSites ==
  NoCallSiteInSource =>
    /\ stage # "failed"
    /\ policy = << >>
    /\ error # "ParseError"

\* A file without SDK calls; the run is done with an empty statement list
\* and every hint unmatched.
C14_Witness ==
  /\ stage = "done"
  /\ request.ServiceHints = {"bedrock", "s3", "secretsmanager", "events"}
  /\ NoCallSiteInSource
  /\ policy = << >>
  /\ unmatchedHints = request.ServiceHints

InFileOrder == ExtractAll(request.SourceFiles)

PutFailed(i) == putResults[i] \notin {"none", "ok"}

\* How often the response names messageId m.
Reported(m) ==
  Cardinality({k \in DOMAIN response.batchItemFailures :
                 response.batchItemFailures[k].itemIdentifier = m})

Stored(m) == \E it \in table : it.messageId = m

\* C17: whatever the order in which the PutCommands of a batch end, the
\* failures collected so far name exactly the records whose processMessage
\* has failed; the returned batchItemFailures names each failed record once
\* and no other; no message is lost (it is on the queue, on the dead-letter
\* queue or stored), and between invocations no stored message is on a queue.
C17_PartialFailureReport ==
  /\ sqsPc \in {"awaiting", "returned"} =>
       \A i \in DOMAIN records :
         PutFailed(i) <=>
           (\E k \in DOMAIN batchItemFailures :
              batchItemFailures[k].itemIdentifier = records[i].messageId)
  /\ sqsPc = "returned" =>
       /\ \A i \in DOMAIN records :
            Reported(records[i].messageId) = IF PutFailed(i) THEN 1 ELSE 0
       /\ Len(response.batchItemFailures)
            = Cardinality({i \in DOMAIN records : PutFailed(i)})
  /\ \A m \in Messages : m \in queue \/ m \in deadLetterQueue \/ Stored(m)
  /\ sqsPc = "idle" =>
       \A m \in Messages : Stored(m) => m \notin (queue \cup deadLetterQueue)

\* Of two records the first is stored and the second fails.
C17_Witness ==
  /\ sqsPc = "returned"
  /\ Len(records) = 2
  /\ putResults[1] = "ok"
  /\ putResults[2] = "ProvisionedThroughputExceededException"
  /\ response.batchItemFailures = << [itemIdentifier |-> records[2].messageId] >>
  /\ errorLog = << [messageId |-> records[2].messageId,
                    errorType |-> "DYNAMODB_THROUGHPUT_EXCEEDED"] >>

Completed == bedrockPc = "returned"

\* C19 as stated: an invocation that ends in an error has left no result
\* object of its processingId in the bucket.
C19_NoPartialExecution ==
  (Completed /\ result.statusCode = 500) => processingId \notin s3Objects

\* C20 as stated: an invocation that has completed has got an event for its
\* processingId onto the bus, with status success when it returns 200 and
\* status error when it returns 500.
C20_EventOnCompletion ==
  Completed =>
    \E e \in eventBus :
      /\ e.processingId = processingId
      /\ e.status = IF result.statusCode = 200 THEN "success" ELSE "error"

\* The commands of the success path, in the order of the handler's try block.
StepOrder == << "GetSecretValue", "InvokeModel", "PutObject", "PutEvents:success" >>

SuccessPathCalls == SelectSeq(sdkCalls, LAMBDA c : c # "PutEvents:error")

Called(command) == \E k \in DOMAIN sdkCalls : sdkCalls[k] = command

CallCount(command) == Cardinality({k \in DOMAIN sdkCalls : sdkCalls[k] = command})

SuccessEventOnBus(id) == \E e \in eventBus : e.processingId = id /\ e.status = "success"

ErrorEventOnBus(id) == \E e \in eventBus : e.processingId = id /\ e.status = "error"

\* What step k of the success path leaves behind when it succeeds.
StepSucceeded(k) ==
  CASE k = 1 -> webhookUrl # ""
    [] k = 2 -> bedrockResult # ""
    [] k = 3 -> s3Location # "" /\ processingId \in s3Objects
    [] k = 4 -> SuccessEventOnBus(processingId)

\* C25: within one invocation the commands of the success path are sent in
\* the order GetSecretValue, InvokeModel, PutObject, PutEvents(success), each
\* at most once; a step has been started only when every earlier step has
\* succeeded; and once a step has failed it is the last step of the success
\* path that was started: only the error event follows it.
C25_StepOrder ==
  /\ Len(SuccessPathCalls) <= Len(StepOrder)
  /\ \A k \in DOMAIN SuccessPathCalls : SuccessPathCalls[k] = StepOrder[k]
  /\ \A k \in DOMAIN SuccessPathCalls : \A j \in 1..(k - 1) : StepSucceeded(j)
  /\ \A k \in DOMAIN sdkCalls :
       sdkCalls[k] = "PutEvents:error" => k = Len(sdkCalls)
  /\ failure # "" =>
       /\ SuccessPathCalls # << >>
       /\ ~StepSucceeded(Len(SuccessPathCalls))
       /\ bedrockPc \notin {"step1", "step2", "step3", "step4"}

\* Step 3 fails after two good steps: step 4 is never started.
C25_Witness ==
  /\ Completed
  /\ sdkCalls = << "GetSecretValue", "InvokeModel", "PutObject", "PutEvents:error" >>
  /\ failure = "S3KmsKeyDisabled"
  /\ webhookUrl # ""
  /\ bedrockResult # ""
  /\ s3Location = ""

C27_EventExclusivity ==
  /\ CallCount("PutEvents:success") <= 1
  /\ CallCount("PutEvents:error") <= 1
  /\ CallCount("PutEvents:success") + CallCount("PutEvents:error") <= 2
  /\ Completed =>
       CallCount("PutEvents:error") = IF failure # "" THEN 1 ELSE 0
  /\ failure = "" => ~Called("PutEvents:error")
  /\ \A id \in 1..MaxInvocations : ~(SuccessEventOnBus(id) /\ ErrorEventOnBus(id))

\* Both calls happen: the success event is refused, the error event is taken;
\* an earlier invocation has its success event on the bus.
C27_Witness ==
  /\ Completed
  /\ processingId = 2
  /\ sdkCalls = << "GetSecretValue", "InvokeModel", "PutObject",
                   "PutEvents:success", "PutEvents:error" >>
  /\ ErrorEventOnBus(2)
  /\ ~SuccessEventOnBus(2)
  /\ SuccessEventOnBus(1)

ReaderReturned == readerPc = "returned"

ErrorStatusCodes == {400, 403, 404, 429, 500, 503}

StatusFor(name) ==
  CASE name \in {"NoSuchKey", "NoSuchBucket"} -> 404
    [] name = "AccessDenied" -> 403
    [] name = "InvalidBucketName" -> 400
    [] name \in {"NetworkingError", "TimeoutError"} -> 503
    [] name \in {"ThrottlingException", "RequestLimitExceeded"} -> 429
    [] OTHER -> 500

\* The response to a caught error is selected by error.name when it is not
\* empty and by error.code only otherwise.
SelectedByNameThenCode ==
  (ReaderReturned /\ getObjectCalls # << >> /\ readerResponse.statusCode # 200) =>
    readerResponse.statusCode =
      StatusFor(IF caught.name # "" THEN caught.name ELSE caught.code)

\* Without BUCKET_NAME the handler returns 500 and sends no command.
MissingBucketIs500 ==
  (readerPc # "idle" /\ ~Truthy(readerInput.BUCKET_NAME)) =>
    /\ ReaderReturned
    /\ readerResponse = ReaderResponse(500, "ConfigurationError")
    /\ getObjectCalls = << >>

\* C28 as stated: beside the mapping and the BUCKET_NAME check, a FILE_NAME
\* that is empty, or empty after trimming, returns 400 and no command is sent.
C28_EmptyFileNameIs400 ==
  /\ SelectedByNameThenCode
  /\ MissingBucketIs500
  /\ (/\ readerPc # "idle"
      /\ Truthy(readerInput.BUCKET_NAME)
      /\ readerInput.FILE_NAME.set
      /\ trim(readerInput.FILE_NAME.value) = << >>) =>
       /\ ReaderReturned
       /\ readerResponse = ReaderResponse(400, "InvalidInput")
       /\ getObjectCalls = << >>

\* C28: handleS3Error selects the response by error.name when it is not
\* empty and by error.code only otherwise, with the status codes 404, 404,
\* 403, 400, 503, 429 and 500 of the claim; a missing BUCKET_NAME returns 500
\* and a FILE_NAME of white space only returns 400, both without a command
\* being sent; an unset or empty FILE_NAME is replaced by sample.json, and
\* the command is sent for it.
C28_ErrorToStatus ==
  /\ SelectedByNameThenCode
  /\ MissingBucketIs500
  /\ (/\ readerPc # "idle"
      /\ Truthy(readerInput.BUCKET_NAME)
      /\ Truthy(readerInput.FILE_NAME)
      /\ trim(readerInput.FILE_NAME.value) = << >>) =>
       /\ ReaderReturned
       /\ readerResponse = ReaderResponse(400, "InvalidInput")
       /\ getObjectCalls = << >>
  /\ (/\ readerPc # "idle"
      /\ Truthy(readerInput.BUCKET_NAME)
      /\ ~Truthy(readerInput.FILE_NAME)) =>
       getObjectCalls = << [Bucket |-> readerInput.BUCKET_NAME.value,
                            Key |-> SampleJson] >>

\* An error without a name is answered by its code, for an empty FILE_NAME
\* that was replaced by sample.json.
C28_Witness ==
  /\ ReaderReturned
  /\ readerInput.FILE_NAME = EnvValue(<< >>)
  /\ getObjectCalls = << [Bucket |-> << "b" >>, Key |-> SampleJson] >>
  /\ caught = [name |-> "", code |-> "AccessDenied"]
  /\ readerResponse = ReaderResponse(403, "AccessDenied")

ResourcesOfType(type) == {r \in stackResources : r.type = type}

\* C22 as stated: the role of StandardIamTestStack has one Allow statement
\* whose actions include dynamodb:BatchWriteItem, dynamodb:PutItem,
\* dynamodb:UpdateItem, dynamodb:DeleteItem and dynamodb:DescribeTable.
C22_DynamoDBWriteStatement ==
  construct = "StandardIamTestStack" =>
    \E k \in DOMAIN roleStatements :
      /\ roleStatements[k].effect = "Allow"
      /\ Acts("dynamodb", {"BatchWriteItem", "PutItem", "UpdateItem", "DeleteItem",
                           "DescribeTable"}) \subseteq roleStatements[k].actions

\* C23: SQSQueueConstruct creates the dead-letter queue exactly when
\* enableDeadLetterQueue is true or left out: then the stack has two queues,
\* the main queue's redrive policy points to the dead-letter queue with the
\* given maxReceiveCount, or 3 when none is given, the dead-letter queue is
\* named <queueName>-dlq when a queueName is given, and the field
\* deadLetterQueue is defined; when enableDeadLetterQueue is false the main
\* queue is the only queue, has no redrive policy, and the field is undefined.
C23_DeadLetterQueueExactlyWhenEnabled ==
  construct = "SQSQueueConstruct" =>
    LET enabled == props.enableDeadLetterQueue # Defined(FALSE)
        queues == ResourcesOfType("AWS::SQS::Queue")
        mains == {r \in queues : r.id = "Queue"}
        dlqs == queues \ mains
        count == IF IsDefined(props.maxReceiveCount)
                 THEN ValueOf(props.maxReceiveCount) ELSE 3
    IN  /\ Cardinality(mains) = 1
        /\ enabled =>
             /\ Cardinality(queues) = 2
             /\ \A m \in mains, d \in dlqs :
                  /\ m.redrivePolicy =
                       Defined([queue |-> d.id, maxReceiveCount |-> count])
                  /\ d.redrivePolicy = Undefined
                  /\ IsDefined(props.queueName) =>
                       d.queueName = Defined(ValueOf(props.queueName) \o "-dlq")
                  /\ queueConstruct.deadLetterQueue = Defined(d.id)
        /\ ~enabled =>
             /\ queues = mains
             /\ \A m \in mains : m.redrivePolicy = Undefined
             /\ queueConstruct.deadLetterQueue = Undefined

\* A named queue with nothing else given: the dead-letter queue is there by
\* default, named after the queue, and takes a message after 3 receives.
C23_Witness ==
  /\ construct = "SQSQueueConstruct"
  /\ props = [queueName |-> Defined("CustomQueueName"),
              maxReceiveCount |-> Undefined,
              enableDeadLetterQueue |-> Undefined]
  /\ Cardinality(stackResources) = 2
  /\ \E d \in stackResources : d.queueName = Defined("CustomQueueName-dlq")
  /\ \E m \in stackResources :
       IsDefined(m.redrivePolicy) /\ ValueOf(m.redrivePolicy).maxReceiveCount = 3
  /\ IsDefined(queueConstruct.deadLetterQueue)

\* C24: DataDeploymentConstruct validates before it creates anything: without
\* targetBucket it throws the targetBucket message, otherwise without a
\* sourcePath (the empty string is none) it throws the sourcePath message,
\* and in both cases the stack has no resource; with both it throws nothing
\* and the stack has exactly one Custom::CDKBucketDeployment, whatever
\* destinationKeyPrefix and prune are.
C24_ValidatesBeforeCreating ==
  construct = "DataDeploymentConstruct" =>
    LET noBucket == props.targetBucket = Undefined
        noPath == props.sourcePath \in {Undefined, Defined("")}
    IN  /\ noBucket =>
             /\ thrownMessage = "targetBucket is a required property"
             /\ stackResources = {}
        /\ (~noBucket /\ noPath) =>
             /\ thrownMessage = "sourcePath is a required property"
             /\ stackResources = {}
        /\ (~noBucket /\ ~noPath) =>
             /\ thrownMessage = ""
             /\ Cardinality(ResourcesOfType("Custom::CDKBucketDeployment")) = 1
             /\ Cardinality(stackResources) = 1

\* Both required properties are missing: the targetBucket message is the one
\* that is thrown.
C24_Witness ==
  /\ construct = "DataDeploymentConstruct"
  /\ props.targetBucket = Undefined
  /\ props.sourcePath = Undefined
  /\ props.prune = Defined(TRUE)
  /\ thrownMessage = TargetBucketRequired
  /\ stackResources = {}

\* The pairs of resource and permission kind the claim calls defined, each
\* with one action of each unconditioned statement the pair adds.
DefinedPairs ==
  { << "s3Bucket", "read", Act("s3", "GetObject") >>,
    << "s3Bucket", "read", Act("s3-object-lambda", "GetObject") >>,
    << "s3Bucket", "write", Act("s3", "PutObject") >>,
    << "s3Bucket", "write", Act("s3-object-lambda", "PutObject") >>,
    << "s3Bucket", "delete", Act("s3", "DeleteObject") >>,
    << "sqsQueue", "consume", Act("sqs", "ReceiveMessage") >>,
    << "sqsQueue", "send", Act("sqs", "SendMessage") >>,
    << "dynamoDBTable", "read", Act("dynamodb", "GetItem") >>,
    << "dynamoDBTable", "write", Act("dynamodb", "PutItem") >>,
    << "secret", "read", Act("secretsmanager", "GetSecretValue") >>,
    << "secret", "write", Act("secretsmanager", "PutSecretValue") >>,
    << "eventBus", "send", Act("events", "PutEvents") >>,
    << "kmsKey", "read", Act("kms", "Decrypt") >>,
    << "kmsKey", "write", Act("kms", "Encrypt") >>,
    << "bedrockModelId", "invoke", Act("bedrock", "InvokeModel") >>,
    << "bedrockModelId", "invoke", Act("bedrock", "ApplyGuardrail") >> }

\* The pairs that come with a statement for the resource's key: the service
\* of the kms:ViaService condition and the KMS action.
KeyPairs ==
  { << "s3Bucket", "read", "s3", "Decrypt" >>,
    << "s3Bucket", "write", "s3", "GenerateDataKey" >>,
    << "sqsQueue", "consume", "sqs", "Decrypt" >>,
    << "dynamoDBTable", "read", "dynamodb", "Decrypt" >>,
    << "dynamoDBTable", "write", "dynamodb", "Decrypt" >>,
    << "secret", "read", "secretsmanager", "Decrypt" >> }

\* The permission kinds in effect: the listed ones, or read.
Listed == IF IsDefined(props.permissions) THEN Range(ValueOf(props.permissions))
          ELSE {"read"}

\* The resource of this kind is provided and the permission kind is listed.
Asked(kind, permission) == IsDefined(props[kind]) /\ permission \in Listed

\* The resource of this kind is provided and exposes an encryption key.
ExposesKey(kind) ==
  IsDefined(props[kind]) /\ IsDefined(ValueOf(props[kind]).encryptionKey)

RoleStatements == Range(roleStatements)

\* The statement is the one on the key of the pair's resource.
IsKeyStatement(st, pair) ==
  /\ st.effect = "Allow"
  /\ st.condition = ViaService(pair[3])
  /\ st.actions = {Act("kms", pair[4])}
  /\ st.resources = {ValueOf(ValueOf(props[pair[1]]).encryptionKey)}

\* C30: without lambdaFunction the IAMPermissionConstruct throws and the role
\* has no statement. Otherwise the role's statements are those of the pairs of
\* a provided resource and a listed permission kind, for every provided
\* resource: each statement of such a pair is there, and every statement
\* without a condition belongs to such a pair, so that a kind a resource does
\* not define adds nothing; a permissions list that is left out counts as
\* read; and a statement with a kms:ViaService condition is there for each
\* such pair of a resource that exposes an encryption key, on that key, and
\* for nothing else.
C30_Dispatch ==
  construct = "IAMPermissionConstruct" =>
    IF ~IsDefined(props.lambdaFunction)
    THEN /\ thrownMessage = LambdaFunctionRequired
         /\ roleStatements = << >>
    ELSE /\ thrownMessage = ""
         /\ \A pair \in DefinedPairs :
              Asked(pair[1], pair[2]) <=>
                \E st \in RoleStatements :
                  /\ st.condition = NoCondition
                  /\ pair[3] \in st.actions
                  /\ st.effect = "Allow"
         /\ \A st \in RoleStatements :
              st.condition = NoCondition =>
                \E pair \in DefinedPairs :
                  Asked(pair[1], pair[2]) /\ pair[3] \in st.actions
         /\ \A pair \in KeyPairs :
              (Asked(pair[1], pair[2]) /\ ExposesKey(pair[1])) =>
                \E st \in RoleStatements : IsKeyStatement(st, pair)
         /\ \A st \in RoleStatements :
              st.condition # NoCondition =>
                \E pair \in KeyPairs :
                  /\ Asked(pair[1], pair[2])
                  /\ ExposesKey(pair[1])
                  /\ IsKeyStatement(st, pair)

\* An encrypted bucket and a table without a key, with read and delete: the
\* bucket gets its two read statements, the statement for its key and the
\* delete statement, the table gets its read statement and nothing for
\* delete.
C30_Witness ==
  /\ construct = "IAMPermissionConstruct"
  /\ IsDefined(props.lambdaFunction)
  /\ props.s3Bucket = Defined(Target("arn:bucket", Defined("arn:key")))
  /\ props.dynamoDBTable = Defined(Target("arn:table", Undefined))
  /\ props.permissions = Defined(<< "read", "delete" >>)
  /\ Len(roleStatements) = 5
  /\ \E k \in DOMAIN roleStatements : roleStatements[k].condition = ViaService("s3")
  /\ \E k \in DOMAIN roleStatements :
       Act("dynamodb", "GetItem") \in roleStatements[k].actions

====
